---------------------------- MODULE Spec2Model ----------------------------
(***************************************************************************)
(* JamDeck: the browser audio engine (server/static/app.js) and the        *)
(* sensor polling of the controller (firmware/firmware.ino).               *)
(*                                                                         *)
(* Conventions of the model                                                *)
(*   - pitches are MIDI numbers (integers);                                *)
(*   - gains and velocities are integers in units of 1/10000, so the       *)
(*     code's 0.0001 is 1, 0.05 is 500, 0.65*v is (65*v) \div 100;         *)
(*   - times are integer milliseconds; a scheduled audio event is kept as  *)
(*     the time left until it happens (audioCtx.currentTime is the         *)
(*     origin), and AdvanceClock lets the audio clock run;                 *)
(*   - a playback rate 2^(k/12) and a frequency 440*2^(k/12) are kept as   *)
(*     the exponent k (semitones).                                         *)
(***************************************************************************)
EXTENDS Integers, Sequences, FiniteSets, Bags, TLC

VARIABLES
  keySelect,         \* UI.keySelect.value
  modeSelect,        \* UI.modeSelect.value
  playModeSelect,    \* UI.playModeSelect.value
  instrumentSelect,  \* UI.instrumentSelect.value
  audioCtx,          \* 0 (null) | the id of the current AudioContext
  openCtx,           \* ids of the AudioContexts created and not closed
  isStarted,         \* BOOLEAN
  masterGain,        \* -1 (null) | the target of the gain's scheduled ramp
  startPending,      \* startAudio calls suspended at await audioCtx.resume()
  loading,           \* sample loads in flight, per instrument
  activeVoices,      \* voiceId -> the voice's units (voice.nodes)
  untracked,         \* bag of the units no voice holds: one-shots, released units
  currentVelocity,   \* 1/10000
  lastPlayed,        \* [degree, note]
  fluteSamples,      \* sequence of [midi, file]
  fluteLoaded,       \* BOOLEAN
  guitarSamples,     \* sequence of [startMidi, endMidi, isRange, file]
  guitarLoaded,      \* BOOLEAN
  lastCall,          \* the handler that ran last, its arguments and outcome
  probe,             \* the last application of a pure function and its result
  vibratoAmount,     \* 1/10000
  vibratoPhase,      \* ticks of the vibrato loop since its start, modulo PhaseTicks
  vibratoTimer,      \* BOOLEAN: the vibrato interval is set
  flexActive,        \* firmware: flexActive
  fsrLevel,          \* firmware: fsrLevel
  lastFsrLevel,      \* firmware: lastFsrLevel
  espVelocity,       \* firmware: currentVelocity, 1/10000
  polls,             \* firmware: the sensor polls so far, each with the event it posted
  lastBtnState,      \* firmware: lastBtnState[i], i in 0..BTN_COUNT-1
  activeDegree,      \* firmware: activeDegree
  currentVibrato,    \* firmware: currentVibrato, 1/10000
  postOk,            \* firmware: postOk
  postFail,          \* firmware: postFail
  outbox             \* firmware: the POSTs of the handler that ran last, each with its outcome

uiVars     == <<keySelect, modeSelect, playModeSelect, instrumentSelect>>
ctxVars    == <<audioCtx, openCtx, isStarted, masterGain, startPending>>
voiceVars  == <<activeVoices, untracked>>
sampleVars == <<fluteSamples, fluteLoaded, guitarSamples, guitarLoaded, loading>>
vibVars    == <<vibratoAmount, vibratoPhase, vibratoTimer>>
sensorVars == <<flexActive, fsrLevel, lastFsrLevel, espVelocity, polls>>
buttonVars == <<lastBtnState, activeDegree>>
httpVars   == <<postOk, postFail, outbox>>
espVars    == <<sensorVars, buttonVars, currentVibrato, httpVars>>
vars == <<keySelect, modeSelect, playModeSelect, instrumentSelect,
          audioCtx, openCtx, isStarted, masterGain, startPending, loading,
          activeVoices, untracked, currentVelocity, lastPlayed,
          fluteSamples, fluteLoaded, guitarSamples, guitarLoaded,
          lastCall, probe, vibVars, espVars>>

-----------------------------------------------------------------------------
(* Bounds of the model *)

\* degrees outside 1..8 handed to the pitch functions: 1-DegreeSpan .. 8+DegreeSpan
DegreeSpan == 7

\* untracked units still sounding when a handler adds untracked units
MaxTails == 0

\* sample loads suspended at one time, per instrument
MaxAsync == 1

\* calls of startAudio suspended at one time
MaxStarts == 2

\* AudioContexts open at one time
MaxCtx == 2

\* milliseconds the audio clock runs in one AdvanceClock step
ClockStepMs == 200

\* entries of a sample library drawn for the search functions
MaxLib == 3

\* pitches of drawn library entries and of search targets: LibLow..LibLow+LibSpan
LibSpan == 4

\* sensor polls the firmware makes
MaxPolls == 4

\* POSTs the firmware attempts
MaxPosts == 4

-----------------------------------------------------------------------------
(* Small helpers *)

Min2(a, b) == IF a <= b THEN a ELSE b

Max2(a, b) == IF a >= b THEN a ELSE b

Abs(x) == IF x < 0 THEN -x ELSE x

\* JavaScript's NaN, the one number that is no integer of the model
NaN == -1000000

\* Number.isFinite on the numbers of the model
isFinite(x) == x # NaN

\* a faulty variant of clamp: the upper bound is not applied
clampNoCeiling(x, a, b) == IF x = NaN THEN NaN ELSE Max2(a, x)

\* Math.max(a, Math.min(b, x)): NaN comes through both
clamp(x, a, b) == IF x = NaN THEN NaN ELSE Max2(a, Min2(b, x))

\* JavaScript's % : the result has the sign of the dividend
JsRem(a, b) == IF a >= 0 THEN a % b ELSE -((-a) % b)

-----------------------------------------------------------------------------
(* Music theory mapping *)

NOTE_TO_PC ==
  [n \in {"C", "C#", "Db", "D", "D#", "Eb", "E", "Fb", "E#", "F", "F#", "Gb",
          "G", "G#", "Ab", "A", "A#", "Bb", "B", "Cb", "B#"} |->
     CASE n \in {"C", "B#"}  -> 0
       [] n \in {"C#", "Db"} -> 1
       [] n = "D"            -> 2
       [] n \in {"D#", "Eb"} -> 3
       [] n \in {"E", "Fb"}  -> 4
       [] n \in {"E#", "F"}  -> 5
       [] n \in {"F#", "Gb"} -> 6
       [] n = "G"            -> 7
       [] n \in {"G#", "Ab"} -> 8
       [] n = "A"            -> 9
       [] n \in {"A#", "Bb"} -> 10
       [] n \in {"B", "Cb"}  -> 11]

SCALE_INTERVALS ==
  [major |-> <<0, 2, 4, 5, 7, 9, 11>>,
   minor |-> <<0, 2, 3, 5, 7, 8, 10>>]

Modes == {"major", "minor"}

Instruments == {"sine", "flute", "guitar"}

PlayModes == {"single", "arp", "chord"}

\* one tonic name per pitch class, and the "auto" entry of the key selector
TonicNames == {"C", "C#", "D", "Eb", "E", "F", "F#", "G", "Ab", "A", "Bb", "B"}

detectedKey == [tonic |-> "C", mode |-> "major"]

getCurrentKeyMode ==
  IF keySelect = "auto" THEN detectedKey
  ELSE [tonic |-> keySelect, mode |-> modeSelect]

NoteNames == <<"C", "C#", "D", "Eb", "E", "F", "F#", "G", "Ab", "A", "Bb", "B">>

midiToNoteName(midi) ==
  LET pc  == ((JsRem(midi, 12)) + 12) % 12
      oct == (midi \div 12) - 1
  IN  NoteNames[pc + 1] \o ToString(oct)

\* baseOctave, minMidi, maxMidi of degreeToMidi's instrument branches
Register(inst) ==
  CASE inst = "guitar" -> [baseOctave |-> 3, minMidi |-> 43, maxMidi |-> 72]
    [] inst = "flute"  -> [baseOctave |-> 5, minMidi |-> 60, maxMidi |-> 84]
    [] OTHER           -> [baseOctave |-> 4, minMidi |-> 48, maxMidi |-> 84]

RECURSIVE RaiseInto(_, _)
\* while (midi < minMidi) midi += 12
RaiseInto(midi, minMidi) ==
  IF midi < minMidi THEN RaiseInto(midi + 12, minMidi) ELSE midi

RECURSIVE LowerInto(_, _)
\* while (midi > maxMidi) midi -= 12
LowerInto(midi, maxMidi) ==
  IF midi > maxMidi THEN LowerInto(midi - 12, maxMidi) ELSE midi

\* a faulty variant of degreeToMidi: the loop that raises a pitch into the
\* register is missing
degreeToMidiNoRaise(degree) ==
  LET km          == getCurrentKeyMode
      tonicPc     == NOTE_TO_PC[km.tonic]
      d0          == degree - 1
      octaveShift == d0 \div 7
      within      == (JsRem(d0, 7) + 7) % 7
      interval    == SCALE_INTERVALS[km.mode][within + 1]
      reg         == Register(instrumentSelect)
      midi        == (reg.baseOctave * 12) + tonicPc + interval + 12 * octaveShift
  IN  LowerInto(midi, reg.maxMidi)

\* a faulty variant of degreeToMidi: the remainder of a degree under 1
\* loses its sign instead of being wrapped into 0..6
degreeToMidiMirrored(degree) ==
  LET km          == getCurrentKeyMode
      tonicPc     == NOTE_TO_PC[km.tonic]
      d0          == degree - 1
      octaveShift == d0 \div 7
      within      == Abs(JsRem(d0, 7))
      interval    == SCALE_INTERVALS[km.mode][within + 1]
      reg         == Register(instrumentSelect)
      midi        == (reg.baseOctave * 12) + tonicPc + interval + 12 * octaveShift
  IN  LowerInto(RaiseInto(midi, reg.minMidi), reg.maxMidi)

degreeToMidi(degree) ==
  LET km          == getCurrentKeyMode
      tonicPc     == NOTE_TO_PC[km.tonic]
      d0          == degree - 1
      octaveShift == d0 \div 7
      within      == (JsRem(d0, 7) + 7) % 7
      interval    == SCALE_INTERVALS[km.mode][within + 1]
      reg         == Register(instrumentSelect)
      midi        == (reg.baseOctave * 12) + tonicPc + interval + 12 * octaveShift
  IN  LowerInto(RaiseInto(midi, reg.minMidi), reg.maxMidi)

RECURSIVE RaiseAbove(_, _)
\* while (target <= base) target += 12
RaiseAbove(target, base) ==
  IF target <= base THEN RaiseAbove(target + 12, base) ELSE target

RECURSIVE LowerBelow(_, _)
\* while (target >= base) target -= 12
LowerBelow(target, base) ==
  IF target >= base THEN LowerBelow(target - 12, base) ELSE target

degreeToMidiOffset(degree, offsetSteps) ==
  LET base   == degreeToMidi(degree)
      target == degreeToMidi(degree + offsetSteps)
      up     == IF offsetSteps > 0 THEN RaiseAbove(target, base) ELSE target
  IN  IF offsetSteps < 0 THEN LowerBelow(up, base) ELSE up

-----------------------------------------------------------------------------
(* Sample engine: flute (single notes) *)

\* a sample file: its name and the groups the filename patterns capture
NoteFile(prefix, letter, acc, oct, suffix) ==
  [file |-> prefix \o letter \o acc \o ToString(oct) \o suffix,
   letter |-> letter, acc |-> acc, oct |-> oct]

FluteFile(letter, acc, oct) ==
  NoteFile("Flute.vib.ff.", letter, acc, oct, ".stereo.wav")

FLUTE_FILES ==
  << FluteFile("A", "", 4),  FluteFile("A", "", 5),  FluteFile("A", "", 6),
     FluteFile("A", "b", 4), FluteFile("A", "b", 5), FluteFile("A", "b", 6),
     FluteFile("B", "", 3),  FluteFile("B", "", 4),  FluteFile("B", "", 5),
     FluteFile("B", "", 6),
     FluteFile("B", "b", 4), FluteFile("B", "b", 5), FluteFile("B", "b", 6),
     FluteFile("C", "", 4),  FluteFile("C", "", 5),  FluteFile("C", "", 6),
     FluteFile("D", "", 4),  FluteFile("D", "", 5),  FluteFile("D", "", 6),
     FluteFile("D", "b", 4), FluteFile("D", "b", 5), FluteFile("D", "b", 6),
     FluteFile("D", "b", 7),
     FluteFile("E", "", 4),  FluteFile("E", "", 5),  FluteFile("E", "", 6),
     FluteFile("E", "b", 4), FluteFile("E", "b", 5), FluteFile("E", "b", 6),
     FluteFile("F", "", 4),  FluteFile("F", "", 5),  FluteFile("F", "", 6),
     FluteFile("G", "", 4),  FluteFile("G", "", 5),  FluteFile("G", "", 6),
     FluteFile("G", "b", 4), FluteFile("G", "b", 5), FluteFile("G", "b", 6) >>

\* the note the filename names: letter, accidental, octave digit
parseFluteNoteFromFilename(f) == [name |-> f.letter \o f.acc, oct |-> f.oct]

\* null is -1
noteNameToMidi(note) ==
  IF note.name \notin DOMAIN NOTE_TO_PC THEN -1
  ELSE (note.oct + 1) * 12 + NOTE_TO_PC[note.name]

RECURSIVE InsertByMidi(_, _)
\* x goes behind every entry whose midi is not larger: the sort is stable
InsertByMidi(sorted, x) ==
  IF sorted = <<>> THEN <<x>>
  ELSE IF x.midi < sorted[Len(sorted)].midi
       THEN Append(InsertByMidi(SubSeq(sorted, 1, Len(sorted) - 1), x),
                   sorted[Len(sorted)])
       ELSE Append(sorted, x)

RECURSIVE SortByMidi(_)
\* loaded.sort((a, b) => a.midi - b.midi)
SortByMidi(s) ==
  IF s = <<>> THEN <<>>
  ELSE InsertByMidi(SortByMidi(SubSeq(s, 1, Len(s) - 1)), s[Len(s)])

RECURSIVE FluteLoadLoop(_, _, _)
\* the for loop of loadFluteSamples over files[i..]; ok is the set of
\* indices whose fetch answers resp.ok
FluteLoadLoop(files, ok, i) ==
  IF i > Len(files) THEN <<>>
  ELSE LET midi == noteNameToMidi(parseFluteNoteFromFilename(files[i]))
           rest == FluteLoadLoop(files, ok, i + 1)
       IN  IF midi = -1 \/ i \notin ok THEN rest
           ELSE <<[midi |-> midi, file |-> files[i].file]>> \o rest

\* the value loadFluteSamples assigns to fluteSamples
LoadedFlute(files, ok) == SortByMidi(FluteLoadLoop(files, ok, 1))

RECURSIVE NearestFromLastTie(_, _, _, _)
\* a faulty variant of NearestFrom: "d <= bestDist", so of two entries
\* equally far from the target the later one wins
NearestFromLastTie(samples, targetMidi, i, best) ==
  IF i > Len(samples) THEN best
  ELSE LET s == samples[i]
           d == Abs(s.midi - targetMidi)
       IN  IF d <= Abs(best.midi - targetMidi)
           THEN NearestFromLastTie(samples, targetMidi, i + 1, s)
           ELSE NearestFromLastTie(samples, targetMidi, i + 1, best)

RECURSIVE NearestFrom(_, _, _, _)
\* the scan of findNearestFluteSample from index i with the best so far
NearestFrom(samples, targetMidi, i, best) ==
  IF i > Len(samples) THEN best
  ELSE LET s == samples[i]
           d == Abs(s.midi - targetMidi)
       IN  IF d < Abs(best.midi - targetMidi)
           THEN NearestFrom(samples, targetMidi, i + 1, s)
           ELSE NearestFrom(samples, targetMidi, i + 1, best)

\* null is <<>>, a sample s is <<s>>
findNearestFluteSample(targetMidi) ==
  IF Len(fluteSamples) = 0 THEN <<>>
  ELSE <<NearestFrom(fluteSamples, targetMidi, 2, fluteSamples[1])>>

-----------------------------------------------------------------------------
(* Sample engine: guitar (range recordings) *)

\* a range file <Start><End>.wav, or a single note file <Note>.wav (e = s)
GuitarFile(dyn, str, sl, sa, so, el, ea, eo, isRange) ==
  [file |-> "Guitar." \o dyn \o "." \o str \o "." \o sl \o sa \o ToString(so)
            \o (IF isRange THEN el \o ea \o ToString(eo) ELSE "") \o ".wav",
   start |-> [name |-> sl \o sa, oct |-> so],
   end |-> [name |-> el \o ea, oct |-> eo],
   isRange |-> isRange]

GUITAR_FILES ==
  << GuitarFile("ff", "sul_E", "C", "", 5, "B", "b", 5, TRUE),
     GuitarFile("ff", "sul_E", "E", "", 4, "B", "", 4, TRUE),
     GuitarFile("ff", "sulA", "A", "", 2, "B", "", 2, TRUE),
     GuitarFile("ff", "sulA", "C", "", 3, "B", "", 3, TRUE),
     GuitarFile("ff", "sulA", "C", "", 4, "E", "", 4, TRUE),
     GuitarFile("ff", "sulB", "B", "", 3, "B", "", 3, FALSE),
     GuitarFile("ff", "sulB", "C", "", 4, "B", "", 4, TRUE),
     GuitarFile("ff", "sulB", "C", "", 5, "G", "b", 5, TRUE),
     GuitarFile("ff", "sulD", "C", "", 4, "A", "b", 4, TRUE),
     GuitarFile("ff", "sulD", "D", "", 3, "B", "", 3, TRUE),
     GuitarFile("ff", "sulE", "C", "", 3, "B", "", 3, TRUE),
     GuitarFile("ff", "sulE", "E", "", 2, "B", "", 2, TRUE),
     GuitarFile("ff", "sulG", "C", "", 4, "B", "", 4, TRUE),
     GuitarFile("ff", "sulG", "C", "", 5, "D", "b", 5, TRUE),
     GuitarFile("ff", "sulG", "G", "", 3, "B", "", 3, TRUE),
     GuitarFile("mf", "sul_E", "C", "", 5, "B", "b", 5, TRUE),
     GuitarFile("mf", "sul_E", "E", "", 4, "B", "", 4, TRUE),
     GuitarFile("mf", "sulA", "A", "", 2, "B", "", 2, TRUE),
     GuitarFile("mf", "sulA", "C", "", 3, "B", "", 3, TRUE),
     GuitarFile("mf", "sulA", "C", "", 4, "E", "", 4, TRUE) >>

\* null is <<>>
parseGuitarRangeFromFilename(f) ==
  LET startMidi == noteNameToMidi(f.start)
      endMidi   == noteNameToMidi(f.end)
  IN  IF f.isRange
      THEN IF startMidi = -1 \/ endMidi = -1 THEN <<>>
           ELSE <<[startMidi |-> startMidi, endMidi |-> endMidi, isRange |-> TRUE]>>
      ELSE IF startMidi = -1 THEN <<>>
           ELSE <<[startMidi |-> startMidi, endMidi |-> startMidi, isRange |-> FALSE]>>

RECURSIVE GuitarLoadLoop(_, _, _)
\* the for loop of loadGuitarSamples over files[i..]
GuitarLoadLoop(files, ok, i) ==
  IF i > Len(files) THEN <<>>
  ELSE LET info == parseGuitarRangeFromFilename(files[i])
           rest == GuitarLoadLoop(files, ok, i + 1)
       IN  IF info = <<>> \/ i \notin ok THEN rest
           ELSE <<[startMidi |-> Min2(info[1].startMidi, info[1].endMidi),
                   endMidi   |-> Max2(info[1].startMidi, info[1].endMidi),
                   isRange   |-> info[1].isRange,
                   file      |-> files[i].file]>> \o rest

\* the value loadGuitarSamples assigns to guitarSamples (file order, unsorted)
LoadedGuitar(files, ok) == GuitarLoadLoop(files, ok, 1)

Span(s) == s.endMidi - s.startMidi

Contains(s, targetMidi) == targetMidi >= s.startMidi /\ targetMidi <= s.endMidi

RECURSIVE Containing(_, _)
\* guitarSamples.filter(s => target >= s.startMidi && target <= s.endMidi)
Containing(samples, targetMidi) ==
  IF samples = <<>> THEN <<>>
  ELSE LET rest == Containing(Tail(samples), targetMidi)
       IN  IF Contains(Head(samples), targetMidi)
           THEN <<Head(samples)>> \o rest ELSE rest

RECURSIVE InsertBySpan(_, _)
InsertBySpan(sorted, x) ==
  IF sorted = <<>> THEN <<x>>
  ELSE IF Span(x) < Span(sorted[Len(sorted)])
       THEN Append(InsertBySpan(SubSeq(sorted, 1, Len(sorted) - 1), x),
                   sorted[Len(sorted)])
       ELSE Append(sorted, x)

RECURSIVE SortBySpan(_)
\* containing.sort((a, b) => (a.endMidi - a.startMidi) - (b.endMidi - b.startMidi))
SortBySpan(s) ==
  IF s = <<>> THEN <<>>
  ELSE InsertBySpan(SortBySpan(SubSeq(s, 1, Len(s) - 1)), s[Len(s)])

\* twice |midpoint - target|: (startMidi + endMidi) / 2 may be a half
MidDist2(s, targetMidi) == Abs((s.startMidi + s.endMidi) - 2 * targetMidi)

RECURSIVE ClosestMidFrom(_, _, _, _)
\* the midpoint scan of findBestGuitarSample from index i
ClosestMidFrom(samples, targetMidi, i, best) ==
  IF i > Len(samples) THEN best
  ELSE IF MidDist2(samples[i], targetMidi) < MidDist2(best, targetMidi)
       THEN ClosestMidFrom(samples, targetMidi, i + 1, samples[i])
       ELSE ClosestMidFrom(samples, targetMidi, i + 1, best)

\* a faulty variant of findBestGuitarSample: the containing entries are not
\* sorted by span, the first one in file order is taken
findBestGuitarSampleUnsorted(targetMidi) ==
  IF Len(guitarSamples) = 0 THEN <<>>
  ELSE LET containing == Containing(guitarSamples, targetMidi)
       IN  IF Len(containing) > 0 THEN <<containing[1]>>
           ELSE <<ClosestMidFrom(guitarSamples, targetMidi, 2, guitarSamples[1])>>

\* null is <<>>, a sample s is <<s>>
findBestGuitarSample(targetMidi) ==
  IF Len(guitarSamples) = 0 THEN <<>>
  ELSE LET containing == Containing(guitarSamples, targetMidi)
       IN  IF Len(containing) > 0 THEN <<SortBySpan(containing)[1]>>
           ELSE <<ClosestMidFrom(guitarSamples, targetMidi, 2, guitarSamples[1])>>


-----------------------------------------------------------------------------
(* Audio primitives *)

\* the state the voice functions work on: [voices |-> the activeVoices map,
\* loose |-> the bag of untracked units]

\* a faulty variant of ensureAudioStarted: the context alone is looked at
ensureAudioStartedByContext == audioCtx # 0

ensureAudioStarted == audioCtx # 0 /\ isStarted

\* currentVelocity after setMasterFromVelocity(v)
VelocityAfterSet(v) == clamp(v, 0, 10000)

\* masterGain after setMasterFromVelocity(v): 0.15 + 0.85 * currentVelocity
MasterAfterSet(v) ==
  IF masterGain # -1 /\ audioCtx # 0
  THEN 1500 + (85 * VelocityAfterSet(v)) \div 100
  ELSE masterGain

\* the empty activeVoices map
NoVoices == [v \in {} |-> <<>>]

\* a sounding unit: a source (oscillator or buffer source) with its gain.
\* base is the exponent of baseFreq / baseRate; startIn, decayIn and stopIn
\* are the milliseconds left to the scheduled start, to the end of the
\* release decay and to the scheduled stop (-1: none scheduled)
Unit(kind, src, midi, base, peak, voice, startIn, stopIn) ==
  [kind |-> kind, src |-> src, midi |-> midi, base |-> base, peak |-> peak,
   voice |-> voice, startIn |-> startIn, decayIn |-> -1, stopIn |-> stopIn,
   bend |-> 0]

\* activeVoices.set(voiceId, {nodes: units})
SetVoice(st, voiceId, units) ==
  [st EXCEPT !.voices = [v \in (DOMAIN st.voices) \cup {voiceId} |->
                           IF v = voiceId THEN units ELSE st.voices[v]]]

\* a one-shot unit connected to the output: no voice holds it
Connect(st, unit) ==
  [st EXCEPT !.loose = @ (+) SetToBag({unit})]

playSineOneShot(st, midi, when, duration, velocity) ==
  Connect(st, Unit("osc", "osc", midi, midi - 69, clamp(velocity, 1, 10000),
                   "", when, when + duration + 30))

playFluteOneShot(st, midi, when, duration, velocity) ==
  LET sample == findNearestFluteSample(midi)
  IN  IF sample = <<>> THEN st
      ELSE Connect(st, Unit("sample", sample[1].file, midi, midi - sample[1].midi,
                            clamp(velocity, 1, 10000), "",
                            when, when + duration + 30))

\* a faulty variant of playGuitarOneShot: the slice is entered in the voice
\* table as if it were a sustained voice
playGuitarOneShotTracked(st, targetMidi, when, velocity) ==
  LET sample == findBestGuitarSample(targetMidi)
  IN  IF sample = <<>> THEN st
      ELSE SetVoice(st, "shot-" \o ToString(targetMidi),
                    <<Unit("sample", sample[1].file, targetMidi, 0,
                           clamp(velocity, 500, 10000), "",
                           when, when + 6 + 450 + 80)>>)

\* no playbackRate is set: the slice plays at the recording's own rate
playGuitarOneShot(st, targetMidi, when, velocity) ==
  LET sample == findBestGuitarSample(targetMidi)
  IN  IF sample = <<>> THEN st
      ELSE Connect(st, Unit("sample", sample[1].file, targetMidi, 0,
                            clamp(velocity, 500, 10000), "",
                            when, when + 6 + 450 + 80))

playNoteMidiOneShot(st, midi, when, duration, velocity) ==
  IF ~ensureAudioStarted THEN st
  ELSE IF instrumentSelect = "flute"
       THEN playFluteOneShot(st, midi, when, duration, velocity)
       ELSE IF instrumentSelect = "guitar"
            THEN playGuitarOneShot(st, midi, when, velocity)
            ELSE playSineOneShot(st, midi, when, duration, velocity)

-----------------------------------------------------------------------------
(* Sustained voices (flute / sine) *)

SingleId(degree) == "single-" \o ToString(degree)

ChordId(degree) == "chord-" \o ToString(degree)

\* a faulty variant of startSustainedMidiForNonGuitar: the test
\* "if (activeVoices.has(voiceId)) return" is missing, so a second start
\* overwrites the entry and the first units sound on, held by no voice
startSustainedMidiUnguarded(st, midi, voiceId, velocity) ==
  LET old   == IF voiceId \in DOMAIN st.voices THEN st.voices[voiceId] ELSE <<>>
      kept  == [st EXCEPT !.loose = @ (+) SetToBag({old[i] : i \in DOMAIN old})]
      found == findNearestFluteSample(midi)
  IN  IF ~ensureAudioStarted THEN st
      ELSE IF instrumentSelect = "sine"
           THEN SetVoice(kept, voiceId,
                  <<Unit("osc", "osc", midi, midi - 69, clamp(velocity, 1, 10000),
                         voiceId, 0, -1)>>)
           ELSE IF found = <<>> THEN st
                ELSE SetVoice(kept, voiceId,
                       <<Unit("sample", found[1].file, midi, midi - found[1].midi,
                              clamp(velocity, 1, 10000), voiceId, 0, -1)>>)

startSustainedMidiForNonGuitar(st, midi, voiceId, velocity) ==
  IF ~ensureAudioStarted THEN st
  ELSE IF voiceId \in DOMAIN st.voices THEN st
  ELSE IF instrumentSelect = "sine"
       THEN SetVoice(st, voiceId,
              <<Unit("osc", "osc", midi, midi - 69, clamp(velocity, 1, 10000),
                     voiceId, 0, -1)>>)
       ELSE LET sample == findNearestFluteSample(midi)
            IN  IF sample = <<>> THEN st
                ELSE SetVoice(st, voiceId,
                       <<Unit("sample", sample[1].file, midi, midi - sample[1].midi,
                              clamp(velocity, 1, 10000), voiceId, 0, -1)>>)

RECURSIVE FluteChordUnits(_, _, _)
\* the flute loop of startSustainedChordForNonGuitar: a tone without a
\* sample is skipped
FluteChordUnits(chordNotes, voiceId, perNoteVel) ==
  IF chordNotes = <<>> THEN <<>>
  ELSE LET m      == Head(chordNotes)
           sample == findNearestFluteSample(m)
           rest   == FluteChordUnits(Tail(chordNotes), voiceId, perNoteVel)
       IN  IF sample = <<>> THEN rest
           ELSE <<Unit("sample", sample[1].file, m, m - sample[1].midi,
                       perNoteVel, voiceId, 0, -1)>> \o rest

startSustainedChordForNonGuitar(st, degree, chordNotes, velocity) ==
  LET voiceId    == ChordId(degree)
      perNoteVel == clamp((65 * velocity) \div 100, 500, 9000)
  IN  IF voiceId \in DOMAIN st.voices THEN st
      ELSE IF instrumentSelect = "sine"
           THEN SetVoice(st, voiceId,
                  [i \in 1..Len(chordNotes) |->
                     Unit("osc", "osc", chordNotes[i], chordNotes[i] - 69,
                          perNoteVel, voiceId, 0, -1)])
           ELSE SetVoice(st, voiceId,
                         FluteChordUnits(chordNotes, voiceId, perNoteVel))

\* the release stopVoice applies to one unit: the gain decays to 0.0001 at
\* now + 0.18 and the source stops at now + 0.22
ReleaseUnit(n) == [n EXCEPT !.decayIn = 180, !.stopIn = 220]

RECURSIVE ReleasedBag(_)
\* the units of a voice, each released
ReleasedBag(units) ==
  IF units = <<>> THEN EmptyBag
  ELSE SetToBag({ReleaseUnit(Head(units))}) (+) ReleasedBag(Tail(units))

\* a faulty variant of stopVoice: the entry is deleted only when the units
\* stop, so right after the release the id is still in the table
stopVoiceKeepsEntry(st, voiceId) ==
  IF audioCtx = 0 THEN st
  ELSE IF voiceId \notin DOMAIN st.voices THEN st
  ELSE [voices |-> st.voices,
        loose  |-> st.loose (+) ReleasedBag(st.voices[voiceId])]

stopVoice(st, voiceId) ==
  IF audioCtx = 0 THEN st
  ELSE IF voiceId \notin DOMAIN st.voices THEN st
  ELSE [voices |-> [v \in (DOMAIN st.voices) \ {voiceId} |-> st.voices[v]],
        loose  |-> st.loose (+) ReleasedBag(st.voices[voiceId])]

RECURSIVE StopEach(_, _)
\* for (const id of Array.from(activeVoices.keys())) stopVoice(id)
StopEach(st, ids) ==
  IF ids = {} THEN st
  ELSE LET id == CHOOSE x \in ids : TRUE
       IN  StopEach(stopVoice(st, id), ids \ {id})

\* a faulty variant of stopAllVoices: activeVoices.clear() alone, no voice
\* is released
stopAllVoicesClearsOnly(st) == [voices |-> NoVoices, loose |-> st.loose]

stopAllVoices(st) ==
  [voices |-> NoVoices, loose |-> StopEach(st, DOMAIN st.voices).loose]


-----------------------------------------------------------------------------
(* Modes: single / chord / arp *)

\* a faulty variant of shuffleArray: position i takes the drawn element and
\* the drawn position keeps its own, so a tone can come twice
shuffleArrayCopies(arr, js) ==
  LET RECURSIVE Loop(_, _)
      Loop(a, i) == IF i > 0 THEN Loop([a EXCEPT ![i + 1] = a[js[i] + 1]], i - 1)
                    ELSE a
  IN  Loop(arr, Len(arr) - 1)

\* shuffleArray with js[i] the index Math.floor(Math.random() * (i + 1))
\* drawn for position i (0-based positions, as in the code)
shuffleArray(arr, js) ==
  LET Swap(a, i, j) == [a EXCEPT ![i + 1] = a[j + 1], ![j + 1] = a[i + 1]]
      RECURSIVE Loop(_, _)
      Loop(a, i) == IF i > 0 THEN Loop(Swap(a, i, js[i]), i - 1) ELSE a
  IN  Loop(arr, Len(arr) - 1)

\* the draws of one shuffle of three tones: js[2] in 0..2, js[1] in 0..1
Draws3 == {<<j1, j2>> : j1 \in 0..1, j2 \in 0..2}

\* a handler's outcome: the voice state, the returned {midi, note} (<<>> is
\* null) and whether it threw
Outcome(st, result, threw) == [st |-> st, result |-> result, threw |-> threw]

Result(midi) == <<[midi |-> midi, note |-> midiToNoteName(midi)]>>

startSingle(st, degree, velocity) ==
  LET midi == degreeToMidi(degree)
  IN  IF instrumentSelect = "guitar"
      THEN Outcome(playNoteMidiOneShot(st, midi, 0, 750, velocity),
                   Result(midi), FALSE)
      ELSE Outcome(startSustainedMidiForNonGuitar(st, midi, SingleId(degree), velocity),
                   Result(midi), FALSE)

\* a faulty variant of stopSingle: every voice is stopped, not the degree's
stopSingleStopsAll(st, degree) ==
  IF instrumentSelect = "guitar" THEN st ELSE stopAllVoices(st)

stopSingle(st, degree) ==
  IF instrumentSelect = "guitar" THEN st ELSE stopVoice(st, SingleId(degree))

\* a faulty variant of ChordTones: the step "if (third - root < 4) third += 12"
\* is missing
ChordTonesUncorrected(degree) ==
  <<degreeToMidi(degree), degreeToMidiOffset(degree, 2), degreeToMidiOffset(degree, 4)>>

\* [root, third, fifth] as startChord and triggerArp build them
ChordTones(degree) ==
  LET root  == degreeToMidi(degree)
      third == degreeToMidiOffset(degree, 2)
      fifth == degreeToMidiOffset(degree, 4)
  IN  <<root, IF third - root < 4 THEN third + 12 ELSE third, fifth>>

\* with the guitar, "root -= 12" assigns to the const root: a TypeError,
\* thrown before any chord tone is played
startChord(st, degree, velocity) ==
  IF instrumentSelect = "guitar" THEN Outcome(st, <<>>, TRUE)
  ELSE LET chordNotes == ChordTones(degree)
       IN  Outcome(startSustainedChordForNonGuitar(st, degree, chordNotes, velocity),
                   Result(chordNotes[1]), FALSE)

stopChord(st, degree) ==
  IF instrumentSelect = "guitar" THEN st ELSE stopVoice(st, ChordId(degree))

RECURSIVE ArpNotes(_, _, _, _)
\* the one-shots of triggerArp for the notes seq[i..], the first at time t
ArpNotes(st, seq, t, velocity) ==
  IF seq = <<>> THEN st
  ELSE ArpNotes(playNoteMidiOneShot(st, Head(seq), t, 312, clamp(velocity, 500, 10000)),
                Tail(seq), t + 120, velocity)

triggerArp(st, degree, velocity, js1, js2) ==
  LET chord == ChordTones(degree)
      notes == shuffleArray(chord, js1) \o shuffleArray(chord, js2)
  IN  Outcome(ArpNotes(st, notes, 0, velocity), Result(chord[1]), FALSE)

-----------------------------------------------------------------------------
(* Handlers *)

Call(op, degree, threw) == [op |-> op, degree |-> degree, threw |-> threw]

Voices == [voices |-> activeVoices, loose |-> untracked]

\* the bound on the tails: a call that adds untracked units finds at most
\* MaxTails of them sounding
TailsBounded(st) ==
  st.loose # untracked => BagCardinality(untracked) <= MaxTails

PlayOutcome(degree, velocity, js1, js2) ==
  CASE playModeSelect = "single" -> startSingle(Voices, degree, velocity)
    [] playModeSelect = "chord"  -> startChord(Voices, degree, velocity)
    [] playModeSelect = "arp"    -> triggerArp(Voices, degree, velocity, js1, js2)
    [] OTHER                     -> Outcome(Voices, <<>>, FALSE)

handleDegreeDown(degree, velocity, js1, js2) ==
  IF ~ensureAudioStarted
  THEN /\ lastCall' = Call("handleDegreeDown", degree, FALSE)
       /\ UNCHANGED <<uiVars, ctxVars, voiceVars, sampleVars, currentVelocity,
                      lastPlayed, probe,
                 vibVars, espVars>>
  ELSE IF VelocityAfterSet(velocity) = NaN
  THEN \* setMasterFromVelocity stores NaN, and the master gain's
       \* linearRampToValueAtTime(NaN, ...) throws TypeError
       /\ currentVelocity' = NaN
       /\ lastCall' = Call("handleDegreeDown", degree, TRUE)
       /\ UNCHANGED <<uiVars, ctxVars, voiceVars, sampleVars, lastPlayed, probe,
                      vibVars, espVars>>
  ELSE \E out \in {PlayOutcome(degree, velocity, js1, js2)} :
           /\ TailsBounded(out.st)
           /\ currentVelocity' = VelocityAfterSet(velocity)
           /\ masterGain' = MasterAfterSet(velocity)
           /\ activeVoices' = out.st.voices
           /\ untracked' = out.st.loose
           /\ lastPlayed' = IF out.threw \/ out.result = <<>> THEN lastPlayed
                            ELSE [degree |-> degree, note |-> out.result[1].note]
           /\ lastCall' = Call("handleDegreeDown", degree, out.threw)
           /\ UNCHANGED <<uiVars, audioCtx, openCtx, isStarted, startPending,
                          sampleVars, probe,
                 vibVars, espVars>>

handleDegreeUp(degree) ==
  \E st \in {CASE playModeSelect = "single" -> stopSingle(Voices, degree)
               [] playModeSelect = "chord"  -> stopChord(Voices, degree)
               [] OTHER                     -> Voices} :
      /\ TailsBounded(st)
      /\ activeVoices' = st.voices
      /\ untracked' = st.loose
      /\ lastCall' = Call("handleDegreeUp", degree, FALSE)
      /\ UNCHANGED <<uiVars, ctxVars, sampleVars, currentVelocity, lastPlayed, probe,
                 vibVars, espVars>>

\* the degree the engine's note handlers are driven with: its voices are
\* "single-1" and "chord-1"
EngineDegrees == {1}

\* the draws the engine's arpeggios are run with: the identity (each
\* position drawn for itself) and one that moves every tone
EngineDraws == {<<1, 2>>, <<0, 0>>}

\* only triggerArp shuffles: in the other modes nothing is drawn
ArpDraws ==
  IF playModeSelect = "arp" /\ ensureAudioStarted THEN EngineDraws ELSE {<<0, 0>>}

\* mousedown on the degree grid, keydown 1..8: the velocity defaults to
\* currentVelocity
DegreeDown ==
  \E d \in EngineDegrees, js1 \in ArpDraws, js2 \in ArpDraws :
    handleDegreeDown(d, currentVelocity, js1, js2)

\* mouseup on the degree grid, keyup 1..8
DegreeUp == \E d \in EngineDegrees : handleDegreeUp(d)

\* mouseleave of the degree grid
MouseLeave ==
  \E st \in {stopAllVoices(Voices)} :
      /\ TailsBounded(st)
      /\ activeVoices' = st.voices
      /\ untracked' = st.loose
      /\ lastCall' = Call("stopAllVoices", 0, FALSE)
      /\ UNCHANGED <<uiVars, ctxVars, sampleVars, currentVelocity, lastPlayed, probe,
                 vibVars, espVars>>


-----------------------------------------------------------------------------
(* Controller messages *)

\* a faulty variant of applyFlexCycleMode: the order does not wrap around,
\* chord stays chord
applyFlexCycleModeNoWrap ==
  LET order == <<"single", "arp", "chord">>
      idx   == IF \E i \in 1..3 : order[i] = playModeSelect
               THEN (CHOOSE i \in 1..3 : order[i] = playModeSelect) - 1
               ELSE -1
  IN  order[Min2(idx + 1, 2) + 1]

applyFlexCycleMode ==
  LET order == <<"single", "arp", "chord">>
      idx   == IF \E i \in 1..3 : order[i] = playModeSelect
               THEN (CHOOSE i \in 1..3 : order[i] = playModeSelect) - 1
               ELSE -1
  IN  order[((idx + 1) % 3) + 1]

\* velocities a controller note_on carries
ControllerVelocities == {0, 10000}

\* ws.onmessage with a well-formed message of each handled type
ControllerNoteOn ==
  \E d \in EngineDegrees, v \in ControllerVelocities,
     js1 \in ArpDraws, js2 \in ArpDraws :
    handleDegreeDown(d, clamp(v, 0, 10000), js1, js2)

ControllerNoteOff == \E d \in EngineDegrees : handleDegreeUp(d)

ControllerCycleMode ==
  /\ playModeSelect' = applyFlexCycleMode
  /\ lastCall' = Call("applyFlexCycleMode", 0, FALSE)
  /\ UNCHANGED <<keySelect, modeSelect, instrumentSelect, ctxVars, voiceVars,
                 sampleVars, currentVelocity, lastPlayed, probe,
                 vibVars, espVars>>

\* JSON values as the handler sees them: t is the typeof (with "null"
\* apart), n a number in units of 1/10000, s a string
Undefined == [t |-> "undefined", n |-> 0, s |-> ""]

Null == [t |-> "null", n |-> 0, s |-> ""]

Num(n) == [t |-> "number", n |-> n, s |-> ""]

Str(s) == [t |-> "string", n |-> 0, s |-> s]

\* Number(x): undefined and text that is no numeral give NaN, null and the
\* empty string give 0
Number(x) ==
  CASE x.t = "number" -> x.n
    [] x.t = "null"   -> 0
    [] x.t = "string" -> IF x.s = "" THEN 0
                         ELSE IF x.s = "1" THEN 10000 ELSE NaN
    [] OTHER          -> NaN

\* a ?? b
Coalesce(a, b) == IF a.t \in {"undefined", "null"} THEN b ELSE a

\* vibratoAmount after setVibratoAmount(amount)
setVibratoAmount(amount) == clamp(amount, 0, 10000)

\* an <option> value assigned to a <select>: a value that is no option
\* leaves nothing selected, and the select's value is ""
SelectValue(options, v) == IF v \in options THEN v ELSE ""

\* a message as JSON.parse returns it: json is "object", "falsy" (null, 0,
\* "", false) or "unparsable" (JSON.parse throws)
Message(type, degree, velocity, amount, action, play_mode) ==
  [json |-> "object", type |-> type, degree |-> degree, velocity |-> velocity,
   amount |-> amount, action |-> action, play_mode |-> play_mode]

Unparsable == [Message(Undefined, Undefined, Undefined, Undefined, Undefined, Undefined)
                 EXCEPT !.json = "unparsable"]

Falsy == [Message(Undefined, Undefined, Undefined, Undefined, Undefined, Undefined)
            EXCEPT !.json = "falsy"]

\* the handler returns without a call
Dropped ==
  /\ lastCall' = Call("handleControllerMessage", 0, FALSE)
  /\ UNCHANGED <<uiVars, ctxVars, voiceVars, sampleVars, currentVelocity,
                 lastPlayed, probe, vibVars, espVars>>

\* the degree of a message, a whole number of the 1/10000 units
Whole(n) == n \div 10000

handleControllerMessage(msg, js1, js2) ==
  IF msg.json # "object" \/ msg.type.t # "string" THEN Dropped
  ELSE CASE msg.type.s = "note_on" ->
              LET degree == Number(msg.degree)
                  vel    == clamp(Number(Coalesce(msg.velocity, Num(currentVelocity))),
                                  0, 10000)
              IN  IF ~isFinite(degree) THEN Dropped
                  ELSE handleDegreeDown(Whole(degree), vel, js1, js2)
         [] msg.type.s = "note_off" ->
              LET degree == Number(msg.degree)
              IN  IF ~isFinite(degree) THEN Dropped
                  ELSE handleDegreeUp(Whole(degree))
         [] msg.type.s = "vibrato" ->
              LET amt == clamp(Number(msg.amount), 0, 10000)
              IN  IF ~isFinite(amt) THEN Dropped
                  ELSE /\ vibratoAmount' = setVibratoAmount(amt)
                       /\ lastCall' = Call("setVibratoAmount", 0, FALSE)
                       /\ UNCHANGED <<uiVars, ctxVars, voiceVars, sampleVars,
                                      currentVelocity, lastPlayed, probe,
                                      vibratoPhase, vibratoTimer, espVars>>
         [] \/ msg.type.s = "flex" /\ msg.action = Str("cycle_mode")
            \/ msg.type.s = "mode_cycle" ->
              ControllerCycleMode
         [] msg.type.s = "state" ->
              /\ playModeSelect' = IF msg.play_mode.t = "string"
                                   THEN SelectValue(PlayModes, msg.play_mode.s)
                                   ELSE playModeSelect
              /\ lastCall' = Call("state", 0, FALSE)
              /\ UNCHANGED <<keySelect, modeSelect, instrumentSelect, ctxVars,
                             voiceVars, sampleVars, currentVelocity, lastPlayed,
                             probe, vibVars, espVars>>
         [] OTHER -> Dropped

\* ws.onmessage: a text JSON.parse rejects is dropped
onmessage(ev, js1, js2) ==
  IF ev.json = "unparsable" THEN Dropped
  ELSE handleControllerMessage(ev, js1, js2)

\* what the messages of the model carry as degree, velocity and amount:
\* nothing, null, text, and numbers in and out of the range. No message
\* carries a degree that is no whole number
MessageDegrees == {Undefined, Null, Str("abc"), Num(10000)}

MessageVelocities == {Undefined, Str("abc"), Num(8000)}

MessageAmounts == {Undefined, Str("abc"), Num(-5000), Num(20000)}

NoteMessages ==
  {Message(Str("note_on"), d, v, Undefined, Undefined, Undefined) :
     d \in MessageDegrees, v \in MessageVelocities}
  \cup {Message(Str("note_off"), d, Undefined, Undefined, Undefined, Undefined) :
          d \in MessageDegrees}

VibratoMessages ==
  {Message(Str("vibrato"), Undefined, Undefined, a, Undefined, Undefined) :
     a \in MessageAmounts}

\* a state message carries play_mode alone
ModeMessages ==
  {Message(Str("flex"), Undefined, Undefined, Undefined, Str("cycle_mode"), Undefined),
   Message(Str("mode_cycle"), Undefined, Undefined, Undefined, Undefined, Undefined),
   Message(Str("state"), Undefined, Undefined, Undefined, Undefined, Str("chord"))}

\* the two messages that cycle the play mode
CycleMessages ==
  {Message(Str("flex"), Undefined, Undefined, Undefined, Str("cycle_mode"), Undefined),
   Message(Str("mode_cycle"), Undefined, Undefined, Undefined, Undefined, Undefined)}

\* text that is no JSON, JSON that is no object, and objects whose type is
\* missing, no string, or unknown
StrayMessages ==
  {Unparsable, Falsy}
  \cup {Message(t, Num(10000), Undefined, Undefined, Undefined, Undefined) :
          t \in {Undefined, Num(10000), Str("bogus")}}

\* a message arrives; an arpeggio it triggers draws one shuffle for both passes
ControllerMessage ==
  \E ev \in StrayMessages \cup NoteMessages \cup ModeMessages, js \in ArpDraws :
    onmessage(ev, js, js)

\* a message that cycles the play mode arrives
CycleModeMessage ==
  \E ev \in CycleMessages : onmessage(ev, <<0, 0>>, <<0, 0>>)

\* a vibrato message arrives
VibratoMessage ==
  \E ev \in VibratoMessages : onmessage(ev, <<0, 0>>, <<0, 0>>)

-----------------------------------------------------------------------------
(* Audio start / stop, sample loads *)

\* startVibratoLoop: a loop already running is left alone
startVibratoLoop ==
  IF vibratoTimer THEN UNCHANGED <<vibratoPhase, vibratoTimer>>
  ELSE vibratoPhase' = 0 /\ vibratoTimer' = TRUE

stopVibratoLoop == vibratoTimer' = FALSE

\* the loop adds 2 * PI * vibratoHz * dt = 0.24 * PI to the phase on each
\* tick: the sine repeats after 25 ticks
PhaseTicks == 25

\* 1000 * Math.sin(0.24 * PI * n), rounded, for n = 0..24: zero at n = 0 only
Sin1000 ==
  <<0, 685, 998, 771, 125, -588, -982, -844, -249, 482, 951, 905, 368,
    -368, -905, -951, -482, 249, 844, 982, 588, -125, -771, -998, -685>>

\* a faulty variant of VibratoCents: the depth never falls to zero
VibratoCentsFloor(amount, phase) == 25 * (amount + 100) * Sin1000[phase + 1]

\* cents = 25 * vibratoAmount * Math.sin(vibratoPhase), in units of 1e-7
\* cent; the ratio 2^(cents / 1200) is 1 exactly when the cents are 0
VibratoCents(amount, phase) == 25 * amount * Sin1000[phase + 1]

\* a faulty variant of Bent: the bent rate is written back as the base
BentRebased(n, cents) == [n EXCEPT !.bend = cents, !.base = @ + 1]

\* a voice's unit after a tick: playbackRate = baseRate * ratio for a
\* sample, frequency = baseFreq * ratio for an oscillator
Bent(n, cents) == [n EXCEPT !.bend = cents]

\* the interval's callback, every 20 ms while the timer is set
VibratoTick ==
  /\ vibratoTimer
  /\ lastCall' = Call("vibratoTick", 0, FALSE)
  /\ IF audioCtx = 0
     THEN UNCHANGED <<vibratoPhase, activeVoices>>
     ELSE /\ vibratoPhase' = (vibratoPhase + 1) % PhaseTicks
          /\ activeVoices' =
               [v \in DOMAIN activeVoices |->
                  [i \in DOMAIN activeVoices[v] |->
                     Bent(activeVoices[v][i],
                          VibratoCents(vibratoAmount, vibratoPhase'))]]
  /\ UNCHANGED <<uiVars, ctxVars, untracked, sampleVars, currentVelocity,
                 lastPlayed, probe, vibratoAmount, vibratoTimer, espVars>>

\* the synchronous head of loadFluteSamples / loadGuitarSamples: the load
\* is in flight unless it returns at once
LoadsAfterBegin(inst, ctx) ==
  IF ctx = 0 THEN loading
  ELSE IF inst = "flute" /\ ~fluteLoaded
       THEN [loading EXCEPT !.flute = @ + 1]
       ELSE IF inst = "guitar" /\ ~guitarLoaded
            THEN [loading EXCEPT !.guitar = @ + 1]
            ELSE loading

LoadsBounded(l) == l.flute <= MaxAsync /\ l.guitar <= MaxAsync

\* click on Start: startAudio up to "await audioCtx.resume()"
StartAudioClick ==
  /\ lastCall' = Call("startAudio", 0, FALSE)
  /\ IF isStarted
     THEN UNCHANGED <<audioCtx, openCtx, startPending>>
     ELSE /\ startPending < MaxStarts
          /\ Cardinality(openCtx) < MaxCtx
          /\ audioCtx' = CHOOSE c \in 1..(MaxCtx + 1) :
                           c \notin openCtx /\ \A b \in 1..(c - 1) : b \in openCtx
          /\ openCtx' = openCtx \cup {audioCtx'}
          /\ startPending' = startPending + 1
  /\ UNCHANGED <<uiVars, isStarted, masterGain, voiceVars, sampleVars,
                 currentVelocity, lastPlayed, probe,
                 vibVars, espVars>>

\* startAudio from the await on: with audioCtx null (a stop came first)
\* audioCtx.createGain() throws
StartAudioResumed ==
  /\ startPending > 0
  /\ startPending' = startPending - 1
  /\ IF audioCtx = 0
     THEN /\ lastCall' = Call("startAudio", 0, TRUE)
          /\ UNCHANGED <<masterGain, isStarted, loading, vibratoPhase, vibratoTimer>>
     ELSE /\ masterGain' = 13500
          /\ isStarted' = TRUE
          /\ startVibratoLoop
          /\ loading' = LoadsAfterBegin(instrumentSelect, audioCtx)
          /\ LoadsBounded(loading')
          /\ lastCall' = Call("startAudio", 0, FALSE)
  /\ UNCHANGED <<uiVars, audioCtx, openCtx, voiceVars, fluteSamples, fluteLoaded,
                 guitarSamples, guitarLoaded, currentVelocity, lastPlayed, probe,
                 vibratoAmount, espVars>>

\* which fetches answer resp.ok: all of them, or none
FetchOutcomes(files) == {1..Len(files), {}}

\* loadFluteSamples runs to its end
FluteLoadDone ==
  /\ loading.flute > 0
  /\ \E ok \in FetchOutcomes(FLUTE_FILES) :
       fluteSamples' = LoadedFlute(FLUTE_FILES, ok)
  /\ fluteLoaded' = TRUE
  /\ loading' = [loading EXCEPT !.flute = @ - 1]
  /\ lastCall' = Call("loadFluteSamples", 0, FALSE)
  /\ UNCHANGED <<uiVars, ctxVars, voiceVars, guitarSamples, guitarLoaded,
                 currentVelocity, lastPlayed, probe,
                 vibVars, espVars>>

\* loadGuitarSamples runs to its end
GuitarLoadDone ==
  /\ loading.guitar > 0
  /\ \E ok \in FetchOutcomes(GUITAR_FILES) :
       guitarSamples' = LoadedGuitar(GUITAR_FILES, ok)
  /\ guitarLoaded' = TRUE
  /\ loading' = [loading EXCEPT !.guitar = @ - 1]
  /\ lastCall' = Call("loadGuitarSamples", 0, FALSE)
  /\ UNCHANGED <<uiVars, ctxVars, voiceVars, fluteSamples, fluteLoaded,
                 currentVelocity, lastPlayed, probe,
                 vibVars, espVars>>

\* a load in flight meets audioCtx = null: audioCtx.decodeAudioData throws
LoadThrows ==
  /\ audioCtx = 0
  /\ \E inst \in {"flute", "guitar"} :
       /\ loading[inst] > 0
       /\ loading' = [loading EXCEPT ![inst] = @ - 1]
  /\ lastCall' = Call("loadSamples", 0, TRUE)
  /\ UNCHANGED <<uiVars, ctxVars, voiceVars, fluteSamples, fluteLoaded,
                 guitarSamples, guitarLoaded, currentVelocity, lastPlayed, probe,
                 vibVars, espVars>>

\* click on Stop. Closing the context ends every unit of its graph
StopAudioClick ==
  /\ lastCall' = Call("stopAudio", 0, FALSE)
  /\ IF audioCtx = 0
     THEN UNCHANGED <<ctxVars, voiceVars, sampleVars, vibratoTimer>>
     ELSE /\ activeVoices' = stopAllVoices(Voices).voices
          /\ stopVibratoLoop
          /\ untracked' = EmptyBag
          /\ openCtx' = openCtx \ {audioCtx}
          /\ audioCtx' = 0
          /\ masterGain' = -1
          /\ isStarted' = FALSE
          /\ fluteLoaded' = FALSE
          /\ fluteSamples' = <<>>
          /\ guitarLoaded' = FALSE
          /\ guitarSamples' = <<>>
          /\ UNCHANGED <<startPending, loading>>
  /\ UNCHANGED <<uiVars, currentVelocity, lastPlayed, probe,
                 vibratoAmount, vibratoPhase, espVars>>

-----------------------------------------------------------------------------
(* Selectors *)

SelectPlayMode ==
  /\ \E m \in PlayModes : playModeSelect' = m
  /\ lastCall' = Call("playModeSelect", 0, FALSE)
  /\ UNCHANGED <<keySelect, modeSelect, instrumentSelect, ctxVars, voiceVars,
                 sampleVars, currentVelocity, lastPlayed, probe,
                 vibVars, espVars>>

\* the change listener starts the instrument's sample load when audio runs
SelectInstrument ==
  /\ \E i \in Instruments : instrumentSelect' = i
  /\ loading' = IF isStarted THEN LoadsAfterBegin(instrumentSelect', audioCtx)
                ELSE loading
  /\ LoadsBounded(loading')
  /\ lastCall' = Call("instrumentSelect", 0, FALSE)
  /\ UNCHANGED <<keySelect, modeSelect, playModeSelect, ctxVars, voiceVars,
                 fluteSamples, fluteLoaded, guitarSamples, guitarLoaded,
                 currentVelocity, lastPlayed, probe,
                 vibVars, espVars>>

-----------------------------------------------------------------------------
(* The audio clock *)

Elapse(t) == IF t = -1 THEN -1 ELSE Max2(0, t - ClockStepMs)

\* a unit whose scheduled stop has come is gone from the graph
Ended(n) == n.stopIn # -1 /\ n.stopIn - ClockStepMs <= 0

Aged(n) ==
  [n EXCEPT !.startIn = Elapse(@), !.decayIn = Elapse(@), !.stopIn = Elapse(@)]

RECURSIVE AgedBag(_, _)
\* the units of the set us, with their copies in bag b, one clock step later
AgedBag(b, us) ==
  IF us = {} THEN EmptyBag
  ELSE LET u    == CHOOSE x \in us : TRUE
           rest == AgedBag(b, us \ {u})
       IN  IF Ended(u) THEN rest
           ELSE rest (+) [x \in {Aged(u)} |-> CopiesIn(u, b)]

\* a voice's units have no stop scheduled: the clock leaves them as they are
AdvanceClock ==
  /\ untracked # EmptyBag
  /\ untracked' = AgedBag(untracked, BagToSet(untracked))
  /\ UNCHANGED <<uiVars, ctxVars, activeVoices, sampleVars, currentVelocity,
                 lastPlayed, lastCall, probe,
                 vibVars, espVars>>

-----------------------------------------------------------------------------
(* The controller's firmware (firmware/firmware.ino): sensor polling *)

ADC_MAX == 4095

FLEX_ON_THRESHOLD == 2300

FLEX_OFF_THRESHOLD == 2000

FSR_MIN_ACTIVE == 900

FSR_MAX_ACTIVE == 3000

FSR_LOW_MAX == 1200

FSR_MID_MAX == 2600

\* ForceLevel, by the name levelToStr gives it
computeLevel(raw) ==
  IF raw <= FSR_LOW_MAX THEN "LOW"
  ELSE IF raw <= FSR_MID_MAX THEN "MID"
       ELSE "HIGH"

\* a faulty variant of computeVelocityFromFSR: readings at or under
\* FSR_MIN_ACTIVE are scaled like the others
computeVelocityNoFloor(raw) ==
  IF raw >= FSR_MAX_ACTIVE THEN 10000
  ELSE 5000 + (5000 * (raw - FSR_MIN_ACTIVE)) \div (FSR_MAX_ACTIVE - FSR_MIN_ACTIVE)

\* DEFAULT_VEL = 0.5 and MAX_VEL = 1.0 in units of 1/10000
computeVelocityFromFSR(raw) ==
  IF raw <= FSR_MIN_ACTIVE THEN 5000
  ELSE IF raw >= FSR_MAX_ACTIVE THEN 10000
       ELSE 5000 + (5000 * (raw - FSR_MIN_ACTIVE)) \div (FSR_MAX_ACTIVE - FSR_MIN_ACTIVE)

\* no document is posted
NoDoc == <<>>

\* a faulty variant of readFlexAndMaybeSend: one threshold, no hysteresis
readFlexSingleThreshold(flexRaw) ==
  LET wasActive == flexActive
      active    == flexRaw >= FLEX_ON_THRESHOLD
  IN  [flexActive |-> active,
       doc |-> IF ~wasActive /\ active
               THEN <<[type |-> "flex", action |-> "cycle_mode", raw |-> flexRaw]>>
               ELSE NoDoc]

\* readFlexAndMaybeSend with analogRead(FLEX_PIN) = flexRaw: the trigger's
\* next state and the document handed to httpPostJson
readFlexAndMaybeSend(flexRaw) ==
  LET wasActive == flexActive
      active    == IF ~flexActive /\ flexRaw >= FLEX_ON_THRESHOLD THEN TRUE
                   ELSE IF flexActive /\ flexRaw <= FLEX_OFF_THRESHOLD THEN FALSE
                        ELSE flexActive
  IN  [flexActive |-> active,
       doc |-> IF ~wasActive /\ active
               THEN <<[type |-> "flex", action |-> "cycle_mode", raw |-> flexRaw]>>
               ELSE NoDoc]

\* a faulty variant of readFSRAndMaybeSendLevel: the level of the last
\* event is not stored
readFSRKeepsLast(fsrRaw) ==
  LET velocity == computeVelocityFromFSR(fsrRaw)
      level    == computeLevel(fsrRaw)
  IN  [currentVelocity |-> velocity,
       fsrLevel |-> level,
       lastFsrLevel |-> lastFsrLevel,
       doc |-> IF level # lastFsrLevel
               THEN <<[type |-> "pressure", raw |-> fsrRaw, level |-> level,
                       velocity |-> velocity]>>
               ELSE NoDoc]

\* readFSRAndMaybeSendLevel with analogRead(FSR_PIN) = fsrRaw
readFSRAndMaybeSendLevel(fsrRaw) ==
  LET velocity == computeVelocityFromFSR(fsrRaw)
      level    == computeLevel(fsrRaw)
  IN  [currentVelocity |-> velocity,
       fsrLevel |-> level,
       lastFsrLevel |-> IF level # lastFsrLevel THEN level ELSE lastFsrLevel,
       doc |-> IF level # lastFsrLevel
               THEN <<[type |-> "pressure", raw |-> fsrRaw, level |-> level,
                       velocity |-> velocity]>>
               ELSE NoDoc]

\* the readings the flex pin is polled with: the ends of the range and
\* both sides of each threshold
FlexReadings ==
  {0, FLEX_OFF_THRESHOLD, FLEX_OFF_THRESHOLD + 1,
   FLEX_ON_THRESHOLD - 1, FLEX_ON_THRESHOLD, ADC_MAX}

\* the readings the force pin is polled with
FsrReadings ==
  {0, FSR_LOW_MAX, FSR_LOW_MAX + 1, FSR_MID_MAX, FSR_MID_MAX + 1, ADC_MAX}

Polled(sensor, raw, doc) == [sensor |-> sensor, raw |-> raw, doc |-> doc]

\* httpPostJson for each document of docs in turn, oks[i] telling whether
\* the i-th POST is answered with a 2xx code (no connection and every other
\* code count as a failure): one counter moves per attempt
httpPostJson(docs, oks) ==
  /\ outbox' = [i \in DOMAIN docs |-> [doc |-> docs[i], ok |-> oks[i]]]
  /\ postOk' = postOk + Cardinality({i \in DOMAIN docs : oks[i]})
  /\ postFail' = postFail + Cardinality({i \in DOMAIN docs : ~oks[i]})
  /\ postOk' + postFail' <= MaxPosts

\* the outcomes n POSTs can have
Outcomes(n) == [1..n -> BOOLEAN]

\* loop(): a flex period has passed
PollFlex ==
  /\ Len(polls) < MaxPolls
  /\ \E flexRaw \in FlexReadings :
       \E r \in {readFlexAndMaybeSend(flexRaw)} :
         /\ flexActive' = r.flexActive
         /\ polls' = Append(polls, Polled("flex", flexRaw, r.doc))
         /\ \E oks \in Outcomes(Len(r.doc)) : httpPostJson(r.doc, oks)
  /\ UNCHANGED <<uiVars, ctxVars, voiceVars, sampleVars, currentVelocity,
                 lastPlayed, lastCall, probe, vibVars, fsrLevel, lastFsrLevel,
                 espVelocity, buttonVars, currentVibrato>>

\* setup() at its end, and loop() when a force period has passed
PollFsr ==
  /\ Len(polls) < MaxPolls
  /\ \E fsrRaw \in FsrReadings :
       \E r \in {readFSRAndMaybeSendLevel(fsrRaw)} :
         /\ espVelocity' = r.currentVelocity
         /\ fsrLevel' = r.fsrLevel
         /\ lastFsrLevel' = r.lastFsrLevel
         /\ polls' = Append(polls, Polled("fsr", fsrRaw, r.doc))
         /\ \E oks \in Outcomes(Len(r.doc)) : httpPostJson(r.doc, oks)
  /\ UNCHANGED <<uiVars, ctxVars, voiceVars, sampleVars, currentVelocity,
                 lastPlayed, lastCall, probe, vibVars, flexActive, buttonVars,
                 currentVibrato>>

BTN_COUNT == 8

\* every switch open: the pull-up holds its pin HIGH
Released == [i \in 0..(BTN_COUNT - 1) |-> "HIGH"]

\* the switches the scans of the model find closed: none, the first, the
\* last, or both
ButtonReadings ==
  {[i \in 0..(BTN_COUNT - 1) |-> IF i \in closed THEN "LOW" ELSE "HIGH"] :
     closed \in SUBSET {0, BTN_COUNT - 1}}

RECURSIVE ScanFromLevel(_, _, _)
\* a faulty variant of ScanFrom: a closed switch sends note_on in every
\* pass, whatever its remembered level
ScanFromLevel(i, levels, active) ==
  IF i >= BTN_COUNT THEN [docs |-> <<>>, activeDegree |-> active]
  ELSE LET now    == levels[i]
           last   == lastBtnState[i]
           degree == i + 1
           press  == now = "LOW"
           lift   == last = "LOW" /\ now = "HIGH"
           act    == IF press THEN degree
                     ELSE IF lift /\ active = degree THEN 0 ELSE active
           rest   == ScanFromLevel(i + 1, levels, act)
           doc    == IF press
                     THEN <<[type |-> "note_on", degree |-> degree,
                             velocity |-> espVelocity]>>
                     ELSE IF lift
                          THEN <<[type |-> "note_off", degree |-> degree]>>
                          ELSE <<>>
       IN  [docs |-> doc \o rest.docs, activeDegree |-> rest.activeDegree]

RECURSIVE ScanFrom(_, _, _)
\* the loop of scanButtonsAndSend from switch i on, with digitalRead giving
\* levels: the documents posted, in order, and activeDegree, which starts
\* as active
ScanFrom(i, levels, active) ==
  IF i >= BTN_COUNT THEN [docs |-> <<>>, activeDegree |-> active]
  ELSE LET now    == levels[i]
           last   == lastBtnState[i]
           degree == i + 1
           press  == last = "HIGH" /\ now = "LOW"
           lift   == last = "LOW" /\ now = "HIGH"
           act    == IF press THEN degree
                     ELSE IF lift /\ active = degree THEN 0 ELSE active
           rest   == ScanFrom(i + 1, levels, act)
           doc    == IF press
                     THEN <<[type |-> "note_on", degree |-> degree,
                             velocity |-> espVelocity]>>
                     ELSE IF lift
                          THEN <<[type |-> "note_off", degree |-> degree]>>
                          ELSE <<>>
       IN  [docs |-> doc \o rest.docs, activeDegree |-> rest.activeDegree]

\* scanButtonsAndSend with digitalRead(BTN_PINS[i]) = levels[i]
scanButtonsAndSend(levels) ==
  \E r \in {ScanFrom(0, levels, activeDegree)} :
    /\ lastBtnState' = levels
    /\ activeDegree' = r.activeDegree
    /\ \E oks \in Outcomes(Len(r.docs)) : httpPostJson(r.docs, oks)

\* loop(): the scan of each pass
ScanButtons ==
  /\ \E levels \in ButtonReadings : scanButtonsAndSend(levels)
  /\ UNCHANGED <<uiVars, ctxVars, voiceVars, sampleVars, currentVelocity,
                 lastPlayed, lastCall, probe, vibVars, sensorVars, currentVibrato>>

\* clampf
clampf(x, a, b) == IF x < a THEN a ELSE IF x > b THEN b ELSE x

\* the gyroscope magnitudes below which the vibrato is 0 and above which
\* it is full, in 1/1000 rad/s
MAG_MIN == 150
MAG_MAX == 2200

\* a faulty variant of readMPUAndSendVibrato: amt is not clamped
readMPUUnclamped(mag) ==
  LET amt == ((mag - MAG_MIN) * 10000) \div (MAG_MAX - MAG_MIN)
      vib == (3 * currentVibrato + amt) \div 4
  IN  [currentVibrato |-> vib,
       doc |-> <<[type |-> "vibrato", amount |-> vib]>>]

\* readMPUAndSendVibrato with |gx| + |gy| + |gz| = mag (1/1000 rad/s):
\* the smoothed amount, in 1/10000, and the document handed to httpPostJson
readMPUAndSendVibrato(mag) ==
  LET amt == clampf(((mag - MAG_MIN) * 10000) \div (MAG_MAX - MAG_MIN), 0, 10000)
      vib == (3 * currentVibrato + amt) \div 4
  IN  [currentVibrato |-> vib,
       doc |-> <<[type |-> "vibrato", amount |-> vib]>>]

\* the magnitudes the gyroscope is polled with: at rest, both ends of the
\* ramp, its middle, and a shake beyond it
MpuReadings == {0, MAG_MIN, (MAG_MIN + MAG_MAX) \div 2, MAG_MAX, 5000}

\* loop(): a vibrato period has passed
PollMpu ==
  /\ Len(polls) < MaxPolls
  /\ \E mag \in MpuReadings :
       \E r \in {readMPUAndSendVibrato(mag)} :
         /\ currentVibrato' = r.currentVibrato
         /\ polls' = Append(polls, Polled("mpu", mag, r.doc))
         /\ \E oks \in Outcomes(Len(r.doc)) : httpPostJson(r.doc, oks)
  /\ UNCHANGED <<uiVars, ctxVars, voiceVars, sampleVars, currentVelocity,
                 lastPlayed, lastCall, probe, vibVars, flexActive, fsrLevel,
                 lastFsrLevel, espVelocity, buttonVars>>

\* the channels loop() polls after the switch scan, in its order
Channels == <<"fsr", "flex", "mpu">>

\* the most documents one pass of loop() posts within the model's scans:
\* two note events and one per channel
MaxDocs == 5

\* oks answers every POST from the a-th to the b-th
AllOk(oks, a, b) == \A k \in a..b : oks[k]

\* a faulty variant of loop: a failed POST ends the pass
loopStopsAfterFailure(levels, due, fsrRaw, flexRaw, mag, oks) ==
  LET scan    == ScanFrom(0, levels, activeDegree)
      fsr     == readFSRAndMaybeSendLevel(fsrRaw)
      flex    == readFlexAndMaybeSend(flexRaw)
      mpu     == readMPUAndSendVibrato(mag)
      runFsr  == "fsr" \in due /\ AllOk(oks, 1, Len(scan.docs))
      docs1   == scan.docs \o (IF runFsr THEN fsr.doc ELSE <<>>)
      runFlex == "flex" \in due /\ AllOk(oks, 1, Len(docs1))
      docs2   == docs1 \o (IF runFlex THEN flex.doc ELSE <<>>)
      runMpu  == "mpu" \in due /\ AllOk(oks, 1, Len(docs2))
      docs    == docs2 \o (IF runMpu THEN mpu.doc ELSE <<>>)
  IN  /\ lastBtnState' = levels
      /\ activeDegree' = scan.activeDegree
      /\ espVelocity' = IF runFsr THEN fsr.currentVelocity ELSE espVelocity
      /\ fsrLevel' = IF runFsr THEN fsr.fsrLevel ELSE fsrLevel
      /\ lastFsrLevel' = IF runFsr THEN fsr.lastFsrLevel ELSE lastFsrLevel
      /\ flexActive' = IF runFlex THEN flex.flexActive ELSE flexActive
      /\ currentVibrato' = IF runMpu THEN mpu.currentVibrato ELSE currentVibrato
      /\ polls' = polls
                    \o (IF runFsr THEN <<Polled("fsr", fsrRaw, fsr.doc)>> ELSE <<>>)
                    \o (IF runFlex THEN <<Polled("flex", flexRaw, flex.doc)>> ELSE <<>>)
                    \o (IF runMpu THEN <<Polled("mpu", mag, mpu.doc)>> ELSE <<>>)
      /\ Len(polls') <= MaxPolls
      /\ httpPostJson(docs, oks)

\* one pass of loop() over connected WiFi: the scan, then each channel of
\* due (those whose period has passed) with its reading; oks[k] is the
\* outcome of the pass's k-th POST.  No handler looks at the outcome of a
\* POST, its own or another's
loop(levels, due, fsrRaw, flexRaw, mag, oks) ==
  LET scan == ScanFrom(0, levels, activeDegree)
      fsr  == readFSRAndMaybeSendLevel(fsrRaw)
      flex == readFlexAndMaybeSend(flexRaw)
      mpu  == readMPUAndSendVibrato(mag)
      docs == scan.docs
                \o (IF "fsr" \in due THEN fsr.doc ELSE <<>>)
                \o (IF "flex" \in due THEN flex.doc ELSE <<>>)
                \o (IF "mpu" \in due THEN mpu.doc ELSE <<>>)
  IN  /\ lastBtnState' = levels
      /\ activeDegree' = scan.activeDegree
      /\ espVelocity' = IF "fsr" \in due THEN fsr.currentVelocity ELSE espVelocity
      /\ fsrLevel' = IF "fsr" \in due THEN fsr.fsrLevel ELSE fsrLevel
      /\ lastFsrLevel' = IF "fsr" \in due THEN fsr.lastFsrLevel ELSE lastFsrLevel
      /\ flexActive' = IF "flex" \in due THEN flex.flexActive ELSE flexActive
      /\ currentVibrato' = IF "mpu" \in due THEN mpu.currentVibrato
                           ELSE currentVibrato
      /\ polls' = polls
                    \o (IF "fsr" \in due
                        THEN <<Polled("fsr", fsrRaw, fsr.doc)>> ELSE <<>>)
                    \o (IF "flex" \in due
                        THEN <<Polled("flex", flexRaw, flex.doc)>> ELSE <<>>)
                    \o (IF "mpu" \in due
                        THEN <<Polled("mpu", mag, mpu.doc)>> ELSE <<>>)
      /\ Len(polls') <= MaxPolls
      /\ httpPostJson(docs, oks)

\* the passes of the model: the first switch open or closed, each channel
\* at one end of its range, the connection answering every POST of the
\* pass, none, or all but the first
LoopLevels == {levels \in ButtonReadings : levels[BTN_COUNT - 1] = "HIGH"}
LoopOutcomes ==
  {[k \in 1..MaxDocs |-> TRUE], [k \in 1..MaxDocs |-> FALSE],
   [k \in 1..MaxDocs |-> k > 1]}

\* loop(); probe keeps what the pass was given
Loop ==
  /\ \E due \in {d \in SUBSET {"fsr", "flex", "mpu"} :
                    Len(polls) + Cardinality(d) <= MaxPolls} :
     \E levels \in LoopLevels,
        fsrRaw \in IF "fsr" \in due THEN {0, ADC_MAX} ELSE {0},
        flexRaw \in IF "flex" \in due THEN {0, ADC_MAX} ELSE {0},
        mag \in IF "mpu" \in due THEN {0, 5000} ELSE {0},
        oks \in LoopOutcomes :
       /\ loop(levels, due, fsrRaw, flexRaw, mag, oks)
       /\ probe' = [fn |-> "loop",
                    arg |-> [levels |-> levels, due |-> due, fsrRaw |-> fsrRaw,
                             flexRaw |-> flexRaw, mag |-> mag],
                    out |-> oks]
  /\ UNCHANGED <<uiVars, ctxVars, voiceVars, sampleVars, currentVelocity,
                 lastPlayed, lastCall, vibVars>>

\* the globals as their initializers leave them, and the switch levels as
\* setup() reads them
Setup(levels) ==
  /\ flexActive = FALSE
  /\ fsrLevel = "LOW"
  /\ lastFsrLevel = "LOW"
  /\ espVelocity = 8000
  /\ polls = <<>>
  /\ lastBtnState = levels
  /\ activeDegree = 0
  /\ currentVibrato = 0
  /\ postOk = 0
  /\ postFail = 0
  /\ outbox = <<>>

\* the controller switched on with no switch held
Booted == Setup(Released)

-----------------------------------------------------------------------------
(* The engine *)

NoProbe == [fn |-> "none", arg |-> 0, out |-> <<>>]

\* the page as its script leaves it
PageLoaded ==
  /\ modeSelect = "major"
  /\ playModeSelect = "single"
  /\ instrumentSelect = "sine"
  /\ audioCtx = 0
  /\ openCtx = {}
  /\ isStarted = FALSE
  /\ masterGain = -1
  /\ startPending = 0
  /\ loading = [flute |-> 0, guitar |-> 0]
  /\ activeVoices = NoVoices
  /\ untracked = EmptyBag
  /\ currentVelocity = 8000
  /\ lastPlayed = [degree |-> 0, note |-> "null"]
  /\ fluteSamples = <<>>
  /\ fluteLoaded = FALSE
  /\ guitarSamples = <<>>
  /\ guitarLoaded = FALSE
  /\ lastCall = Call("load", 0, FALSE)
  /\ probe = NoProbe
  /\ vibratoAmount = 0
  /\ vibratoPhase = 0
  /\ vibratoTimer = FALSE

\* page and controller, both just started
Constructed == PageLoaded /\ Booted

\* the page after construction, from which the whole life cycle runs
InitLifecycle == keySelect = "C" /\ Constructed

NextLifecycle ==
  \/ StartAudioClick
  \/ StartAudioResumed
  \/ FluteLoadDone
  \/ GuitarLoadDone
  \/ LoadThrows
  \/ StopAudioClick
  \/ SelectInstrument
  \/ DegreeDown
  \/ DegreeUp
  \/ AdvanceClock

SpecLifecycle == InitLifecycle /\ [][NextLifecycle]_vars

\* The voice engine with audio running: startAudio has run to its end and
\* both sample loads have finished, every fetch answering alike
Init ==
  /\ keySelect = "C"
  /\ modeSelect = "major"
  /\ playModeSelect = "single"
  /\ instrumentSelect = "sine"
  /\ audioCtx = 1
  /\ openCtx = {1}
  /\ isStarted = TRUE
  /\ masterGain = 13500
  /\ startPending = 0
  /\ loading = [flute |-> 0, guitar |-> 0]
  /\ activeVoices = NoVoices
  /\ untracked = EmptyBag
  /\ currentVelocity = 8000
  /\ lastPlayed = [degree |-> 0, note |-> "null"]
  /\ \E allOk \in BOOLEAN :
       /\ fluteSamples = LoadedFlute(FLUTE_FILES, IF allOk THEN DOMAIN FLUTE_FILES ELSE {})
       /\ guitarSamples = LoadedGuitar(GUITAR_FILES, IF allOk THEN DOMAIN GUITAR_FILES ELSE {})
  /\ fluteLoaded = TRUE
  /\ guitarLoaded = TRUE
  /\ lastCall = Call("loadGuitarSamples", 0, FALSE)
  /\ probe = NoProbe
  /\ vibratoAmount = 0
  /\ vibratoPhase = 0
  /\ vibratoTimer = TRUE
  /\ Booted

Next ==
  \/ DegreeDown
  \/ DegreeUp
  \/ MouseLeave
  \/ SelectPlayMode
  \/ SelectInstrument
  \/ StopAudioClick
  \/ AdvanceClock

Spec == Init /\ [][Next]_vars

\* The arpeggiator. The draws of the two passes of a trigger: every shuffle
\* occurs as the first pass and as the second, followed or preceded by the
\* same shuffle or by the one of the draws <<0, 0>>
ArpPasses ==
  IF playModeSelect = "arp" /\ ensureAudioStarted
  THEN {p \in Draws3 \X Draws3 : p[2] = p[1] \/ p[2] = <<0, 0>>}
  ELSE {<<<<0, 0>>, <<0, 0>>>>}

ArpDown ==
  \E d \in EngineDegrees, p \in ArpPasses :
    handleDegreeDown(d, currentVelocity, p[1], p[2])

\* the play mode is set to arp
SelectArp ==
  /\ playModeSelect' = "arp"
  /\ lastCall' = Call("playModeSelect", 0, FALSE)
  /\ UNCHANGED <<keySelect, modeSelect, instrumentSelect, ctxVars, voiceVars,
                 sampleVars, currentVelocity, lastPlayed, probe,
                 vibVars, espVars>>

NextArp ==
  \/ ArpDown
  \/ DegreeUp
  \/ SelectArp
  \/ SelectInstrument
  \/ AdvanceClock

SpecArp == Init /\ [][NextArp]_vars

\* The vibrato loop over voices that are started and held
NextVibrato ==
  \/ VibratoTick
  \/ VibratoMessage
  \/ DegreeDown
  \/ SelectInstrument

SpecVibrato == Init /\ [][NextVibrato]_vars

\* The vibrato loop beside voices that are released and one-shots
NextBend ==
  \/ VibratoTick
  \/ VibratoMessage
  \/ DegreeDown
  \/ DegreeUp
  \/ SelectInstrument

SpecBend == Init /\ [][NextBend]_vars

\* The page driven through its socket, with the clock running
NextMessages ==
  \/ ControllerMessage
  \/ VibratoMessage
  \/ DegreeDown
  \/ AdvanceClock

SpecMessages == Init /\ [][NextMessages]_vars

\* The play mode cycled by the controller, before audio starts, while it
\* runs with voices held, and after it stops
NextCycle ==
  \/ CycleModeMessage
  \/ VibratoMessage
  \/ StartAudioClick
  \/ StartAudioResumed
  \/ StopAudioClick
  \/ DegreeDown

SpecCycle == InitLifecycle /\ [][NextCycle]_vars

\* Notes from the page and from the controller, before audio starts, while
\* it runs, and after it stops
NextMuted ==
  \/ DegreeDown
  \/ ControllerNoteOn
  \/ DegreeUp
  \/ SelectPlayMode
  \/ VibratoMessage
  \/ StartAudioClick
  \/ StartAudioResumed
  \/ StopAudioClick

SpecMuted == InitLifecycle /\ [][NextMuted]_vars

\* The firmware's sensor loop, beside an idle page
NextFirmware == PollFlex \/ PollFsr

\* The firmware's switch scan, with the force sensor setting the velocity;
\* a switch may be held while setup() runs
InitScan ==
  /\ keySelect = "C"
  /\ PageLoaded
  /\ \E levels \in ButtonReadings : Setup(levels)

\* The firmware's loop, pass by pass
NextLoop == Loop

SpecLoop == InitLifecycle /\ [][NextLoop]_vars

\* The firmware's motion polling, beside the flex trigger
NextMotion == PollMpu \/ PollFlex

SpecMotion == InitLifecycle /\ [][NextMotion]_vars

NextScan == ScanButtons \/ PollFsr

SpecScan == InitScan /\ [][NextScan]_vars

\* The same scan on a controller switched on with no switch held: a
\* remembered LOW is then a press that was scanned and not yet lifted
SpecHeld == InitLifecycle /\ [][NextScan]_vars

SpecFirmware == InitLifecycle /\ [][NextFirmware]_vars

\* The voice engine driven by the controller's messages
NextController ==
  \/ ControllerNoteOn
  \/ ControllerNoteOff
  \/ ControllerCycleMode
  \/ AdvanceClock

SpecController == Init /\ [][NextController]_vars

-----------------------------------------------------------------------------
(* The harmony mapper on its own: every key, mode and instrument of the    *)
(* selectors, the pitch functions applied to degrees inside and outside    *)
(* 1..8                                                                    *)

HarmonyDegrees == (1 - DegreeSpan)..(8 + DegreeSpan)

InitHarmony ==
  /\ keySelect \in TonicNames \cup {"auto"}
  /\ modeSelect \in Modes
  /\ instrumentSelect \in Instruments
  /\ playModeSelect = "single"
  /\ audioCtx = 0
  /\ openCtx = {}
  /\ isStarted = FALSE
  /\ masterGain = -1
  /\ startPending = 0
  /\ loading = [flute |-> 0, guitar |-> 0]
  /\ activeVoices = NoVoices
  /\ untracked = EmptyBag
  /\ currentVelocity = 8000
  /\ lastPlayed = [degree |-> 0, note |-> "null"]
  /\ fluteSamples = <<>>
  /\ fluteLoaded = FALSE
  /\ guitarSamples = <<>>
  /\ guitarLoaded = FALSE
  /\ lastCall = Call("load", 0, FALSE)
  /\ probe = NoProbe
  /\ vibratoAmount = 0
  /\ vibratoPhase = 0
  /\ vibratoTimer = FALSE
  /\ Booted

Applied(fn, arg, out) == [fn |-> fn, arg |-> arg, out |-> out]

ApplyDegreeToMidi ==
  /\ \E d \in HarmonyDegrees :
       probe' = Applied("degreeToMidi", d, <<degreeToMidi(d)>>)
  /\ UNCHANGED <<uiVars, ctxVars, voiceVars, sampleVars, currentVelocity,
                 lastPlayed, lastCall, vibVars, espVars>>

\* the chord of startChord (flute, sine) and of triggerArp
ApplyChordTones ==
  /\ \E d \in HarmonyDegrees :
       probe' = Applied("ChordTones", d, ChordTones(d))
  /\ UNCHANGED <<uiVars, ctxVars, voiceVars, sampleVars, currentVelocity,
                 lastPlayed, lastCall, vibVars, espVars>>

NextHarmony == ApplyDegreeToMidi \/ ApplyChordTones

SpecHarmony == InitHarmony /\ [][NextHarmony]_vars

-----------------------------------------------------------------------------
(* The firmware's velocity curve on its own: every reading of the ADC *)

ApplyComputeVelocityFromFSR ==
  /\ \E raw \in 0..ADC_MAX :
       probe' = Applied("computeVelocityFromFSR", raw, <<computeVelocityFromFSR(raw)>>)
  /\ UNCHANGED <<uiVars, ctxVars, voiceVars, sampleVars, currentVelocity,
                 lastPlayed, lastCall, vibVars, espVars>>

NextVelocity == ApplyComputeVelocityFromFSR

SpecVelocity == InitLifecycle /\ [][NextVelocity]_vars

-----------------------------------------------------------------------------
(* The sample search on its own: audio runs, the instrument's load has     *)
(* finished with at most MaxLib of its fetches answered, and the search is *)
(* applied to targets around the library                                   *)

\* the lowest flute recording, B3
LibLow == noteNameToMidi([name |-> "B", oct |-> 3])

RECURSIVE Picks(_, _)
\* the subsets of S with at most n elements
Picks(S, n) ==
  IF n = 0 THEN {{}}
  ELSE LET p == Picks(S, n - 1) IN p \cup {x \cup {i} : x \in p, i \in S}

\* the flute files of the pitches LibLow..LibLow+LibSpan
FlutePool ==
  {i \in DOMAIN FLUTE_FILES :
     noteNameToMidi(parseFluteNoteFromFilename(FLUTE_FILES[i]))
       \in LibLow..(LibLow + LibSpan)}

SearchTargets == (LibLow - LibSpan)..(LibLow + 2 * LibSpan)

InitLibrary ==
  /\ keySelect = "C"
  /\ modeSelect = "major"
  /\ playModeSelect = "single"
  /\ audioCtx = 1
  /\ openCtx = {1}
  /\ isStarted = TRUE
  /\ masterGain = 13500
  /\ startPending = 0
  /\ loading = [flute |-> 0, guitar |-> 0]
  /\ activeVoices = NoVoices
  /\ untracked = EmptyBag
  /\ currentVelocity = 8000
  /\ lastPlayed = [degree |-> 0, note |-> "null"]
  /\ \/ /\ instrumentSelect = "flute"
        /\ \E ok \in Picks(FlutePool, MaxLib) :
             fluteSamples = LoadedFlute(FLUTE_FILES, ok)
        /\ fluteLoaded = TRUE
        /\ guitarSamples = <<>>
        /\ guitarLoaded = FALSE
        /\ lastCall = Call("loadFluteSamples", 0, FALSE)
     \/ /\ instrumentSelect = "guitar"
        /\ \E ok \in Picks(DOMAIN GUITAR_FILES, MaxLib) :
             guitarSamples = LoadedGuitar(GUITAR_FILES, ok)
        /\ guitarLoaded = TRUE
        /\ fluteSamples = <<>>
        /\ fluteLoaded = FALSE
        /\ lastCall = Call("loadGuitarSamples", 0, FALSE)
  /\ probe = NoProbe
  /\ vibratoAmount = 0
  /\ vibratoPhase = 0
  /\ vibratoTimer = TRUE
  /\ Booted

ApplyFindNearestFluteSample ==
  /\ fluteLoaded
  /\ \E t \in SearchTargets :
       probe' = Applied("findNearestFluteSample", t, findNearestFluteSample(t))
  /\ UNCHANGED <<uiVars, ctxVars, voiceVars, sampleVars, currentVelocity,
                 lastPlayed, lastCall, vibVars, espVars>>

ApplyFindBestGuitarSample ==
  /\ guitarLoaded
  /\ \E t \in SearchTargets :
       probe' = Applied("findBestGuitarSample", t, findBestGuitarSample(t))
  /\ UNCHANGED <<uiVars, ctxVars, voiceVars, sampleVars, currentVelocity,
                 lastPlayed, lastCall, vibVars, espVars>>

NextLibrary == ApplyFindNearestFluteSample \/ ApplyFindBestGuitarSample

SpecLibrary == InitLibrary /\ [][NextLibrary]_vars

-----------------------------------------------------------------------------
(* Properties of the harmony mapper *)

\* C1: for every degree in 1..8, every tonic, both modes and every
\* instrument, degreeToMidi returns a pitch inside the instrument's register
\* [minMidi, maxMidi].
C1_PitchInRegister ==
  (probe.fn = "degreeToMidi" /\ probe.arg \in 1..8) =>
     /\ probe.out[1] >= Register(instrumentSelect).minMidi
     /\ probe.out[1] <= Register(instrumentSelect).maxMidi

\* the guitar's degree 1 in C: 36 lies under the register and is raised to 48
C1_Witness ==
  /\ probe = Applied("degreeToMidi", 1, <<48>>)
  /\ instrumentSelect = "guitar"
  /\ keySelect = "C"

\* C2: with key C major, degree 1 and the sine timbre, a note-on in single
\* mode plays pitch 60 and reports the note name "C4".
C2_MiddleC ==
  ( /\ lastCall = Call("handleDegreeDown", 1, FALSE)
    /\ ensureAudioStarted
    /\ getCurrentKeyMode = [tonic |-> "C", mode |-> "major"]
    /\ instrumentSelect = "sine"
    /\ playModeSelect = "single"
    /\ SingleId(1) \in DOMAIN activeVoices
    /\ activeVoices[SingleId(1)][1].kind = "osc" )
  => /\ activeVoices[SingleId(1)][1].midi = 60
     /\ lastPlayed = [degree |-> 1, note |-> "C4"]

\* C3: for every key, mode and instrument the pitch of degree 8 is exactly
\* 12 semitones above the pitch of degree 1.
C3_OctaveAbove ==
  (probe.fn = "degreeToMidi" /\ probe.arg = 8) =>
     probe.out[1] = degreeToMidi(1) + 12

\* C4: for every degree in 1..8, every key and mode and the sustained
\* instruments (sine, flute), the chord has third - root >= 4 semitones.
C4_UsableThird ==
  (probe.fn = "ChordTones" /\ probe.arg \in 1..8
     /\ instrumentSelect \in {"sine", "flute"}) =>
        probe.out[2] - probe.out[1] >= 4

\* degree 2 of C major on the sine: D3, and the minor third F3 moved up to F4
C4_Witness ==
  /\ probe = Applied("ChordTones", 2, <<50, 65, 57>>)
  /\ instrumentSelect = "sine"
  /\ keySelect = "C"
  /\ modeSelect = "major"

-----------------------------------------------------------------------------
(* Properties of the sample search *)

\* C5: findNearestFluteSample returns null for the empty library; otherwise
\* it returns an entry whose distance |midi - target| is minimal over the
\* library, and of several entries at that distance the first one in
\* ascending pitch order (the order loadFluteSamples leaves the library in).
C5_NearestFlute ==
  probe.fn = "findNearestFluteSample" =>
    IF fluteSamples = <<>> THEN probe.out = <<>>
    ELSE /\ \A j, k \in DOMAIN fluteSamples :
              j < k => fluteSamples[j].midi <= fluteSamples[k].midi
         /\ \E i \in DOMAIN fluteSamples :
              /\ probe.out = <<fluteSamples[i]>>
              /\ \A j \in DOMAIN fluteSamples :
                   /\ Abs(fluteSamples[i].midi - probe.arg)
                        <= Abs(fluteSamples[j].midi - probe.arg)
                   /\ Abs(fluteSamples[i].midi - probe.arg)
                        = Abs(fluteSamples[j].midi - probe.arg) => i <= j

\* a tie: the target lies midway between the returned entry and a higher one
C5_Witness ==
  /\ probe.fn = "findNearestFluteSample"
  /\ probe.out # <<>>
  /\ probe.out[1].midi < probe.arg
  /\ \E j \in DOMAIN fluteSamples :
       fluteSamples[j].midi - probe.arg = probe.arg - probe.out[1].midi

\* C6: findBestGuitarSample: when some entry has startMidi <= target <=
\* endMidi, the returned entry contains the target and no containing entry
\* has a smaller span; when none contains it, the returned entry minimizes
\* |target - (startMidi + endMidi) / 2| over the library.
C6_BestGuitar ==
  (probe.fn = "findBestGuitarSample" /\ guitarSamples # <<>>) =>
    /\ probe.out # <<>>
    /\ \E i \in DOMAIN guitarSamples : probe.out[1] = guitarSamples[i]
    /\ IF \E i \in DOMAIN guitarSamples :
            /\ guitarSamples[i].startMidi <= probe.arg
            /\ probe.arg <= guitarSamples[i].endMidi
       THEN /\ probe.out[1].startMidi <= probe.arg
            /\ probe.arg <= probe.out[1].endMidi
            /\ \A i \in DOMAIN guitarSamples :
                 (guitarSamples[i].startMidi <= probe.arg
                    /\ probe.arg <= guitarSamples[i].endMidi)
                 => probe.out[1].endMidi - probe.out[1].startMidi
                      <= guitarSamples[i].endMidi - guitarSamples[i].startMidi
       ELSE \A i \in DOMAIN guitarSamples :
              Abs(probe.out[1].startMidi + probe.out[1].endMidi - 2 * probe.arg)
                <= Abs(guitarSamples[i].startMidi + guitarSamples[i].endMidi
                       - 2 * probe.arg)

\* a wider containing entry comes first in the library and the narrower,
\* later one is returned
C6_Witness ==
  /\ probe.fn = "findBestGuitarSample"
  /\ Len(guitarSamples) >= 2
  /\ guitarSamples[1].startMidi <= probe.arg
  /\ probe.arg <= guitarSamples[1].endMidi
  /\ probe.out # <<>>
  /\ probe.out[1].endMidi - probe.out[1].startMidi
       < guitarSamples[1].endMidi - guitarSamples[1].startMidi

-----------------------------------------------------------------------------
(* Properties of the voice table *)

\* the sustained timbres: a note-on starts a voice that a note-off stops
SustainedTimbre == instrumentSelect \in {"sine", "flute"}

\* the id of the voice a note handler of degree d works on
VoiceIdOf(d) == IF playModeSelect = "chord" THEN ChordId(d) ELSE SingleId(d)

\* unit n after the release, as the audio graph holds it
Tail180(n) == [n EXCEPT !.decayIn = 180, !.stopIn = 220]

\* C7: starting a sustained voice with an id that is in the table (a second
\* start with no stop in between) leaves the table with its one entry for
\* the id and leaves every unit as it was: no second set of units sounds.
C7_SecondStartChangesNothing ==
  [][\A d \in EngineDegrees :
       ( /\ playModeSelect \in {"single", "chord"}
         /\ SustainedTimbre
         /\ VoiceIdOf(d) \in DOMAIN activeVoices
         /\ handleDegreeDown(d, currentVelocity, <<0, 0>>, <<0, 0>>) )
       => /\ activeVoices' = activeVoices
          /\ untracked' = untracked]_vars

\* the voice of degree 1 was started on the sine; a second note-on of degree
\* 1, played on the flute (it reports the flute's C4), left the oscillator
C7_Witness ==
  /\ lastCall = Call("handleDegreeDown", 1, FALSE)
  /\ playModeSelect = "single"
  /\ instrumentSelect = "flute"
  /\ fluteSamples # <<>>
  /\ lastPlayed = [degree |-> 1, note |-> "C4"]
  /\ SingleId(1) \in DOMAIN activeVoices
  /\ Len(activeVoices[SingleId(1)]) = 1
  /\ activeVoices[SingleId(1)][1].kind = "osc"
  /\ untracked = EmptyBag

\* C8: stopVoice on an id that is not in the table (never started, or
\* released before) raises no error and leaves the table and every sounding
\* unit unchanged.
C8_StopOfAbsentIdChangesNothing ==
  [][\A d \in EngineDegrees :
       ( /\ playModeSelect \in {"single", "chord"}
         /\ SustainedTimbre
         /\ VoiceIdOf(d) \notin DOMAIN activeVoices
         /\ handleDegreeUp(d) )
       => /\ activeVoices' = activeVoices
          /\ untracked' = untracked
          /\ lastCall'.threw = FALSE]_vars

\* a note-off of degree 1 in single mode while the chord of degree 1 is
\* held: "single-1" is absent, the chord's voice is left alone
C8_Witness ==
  /\ lastCall = Call("handleDegreeUp", 1, FALSE)
  /\ ensureAudioStarted
  /\ playModeSelect = "single"
  /\ instrumentSelect = "sine"
  /\ lastPlayed = [degree |-> 1, note |-> "C3"]
  /\ DOMAIN activeVoices = {ChordId(1)}
  /\ Len(activeVoices[ChordId(1)]) = 3
  /\ untracked = EmptyBag

C10_StopAllEmptiesTable ==
  [][/\ MouseLeave =>
          /\ activeVoices' = NoVoices
          /\ audioCtx # 0 =>
               \A v \in DOMAIN activeVoices : \A i \in DOMAIN activeVoices[v] :
                  CopiesIn(Tail180(activeVoices[v][i]), untracked')
                    > CopiesIn(Tail180(activeVoices[v][i]), untracked)
     /\ StopAudioClick => activeVoices' = NoVoices]_vars

\* both voices of degree 1 were in the table: it is empty and units of both
\* are in their release
C10_Witness ==
  /\ lastCall = Call("stopAllVoices", 0, FALSE)
  /\ activeVoices = NoVoices
  /\ \E u, w \in BagToSet(untracked) :
       /\ u.voice = SingleId(1) /\ u.decayIn = 180 /\ u.stopIn = 220
       /\ w.voice = ChordId(1) /\ w.decayIn = 180 /\ w.stopIn = 220


\* C11: a one-shot never enters the voice table. A note-on with the guitar
\* (any play mode) or in arp mode (any instrument) leaves the set of voice
\* ids as it was; an id appears only on a sustained start (single or chord
\* mode, sine or flute) and disappears only through stopVoice (note-off) or
\* stopAllVoices (mouse leave, stop of the audio).
C11_OneShotsStayOutOfTable ==
  [][/\ ( /\ instrumentSelect = "guitar" \/ playModeSelect = "arp"
          /\ lastCall'.op = "handleDegreeDown" )
          => DOMAIN activeVoices' = DOMAIN activeVoices
     /\ (DOMAIN activeVoices' \ DOMAIN activeVoices # {})
          => /\ lastCall'.op = "handleDegreeDown"
             /\ playModeSelect \in {"single", "chord"}
             /\ SustainedTimbre
     /\ (DOMAIN activeVoices \ DOMAIN activeVoices' # {})
          => lastCall'.op \in {"handleDegreeUp", "stopAllVoices", "stopAudio"}]_vars

\* a guitar one-shot has just been fired while the sine voice "single-1"
\* is held: the slice sounds, and the table holds the sine voice alone
C11_Witness ==
  /\ lastCall.op = "handleDegreeDown"
  /\ instrumentSelect = "guitar"
  /\ DOMAIN activeVoices = {SingleId(1)}
  /\ \E u \in BagToSet(untracked) : u.kind = "sample" /\ u.voice = "" /\ u.startIn = 0

\* C12: in every reachable state every voice of the table owns at least
\* one sounding unit.
C12_EveryVoiceSounds ==
  \A v \in DOMAIN activeVoices : Len(activeVoices[v]) >= 1

\* C17: in chord mode with the guitar a note-on fires exactly three
\* simultaneous guitar one-shots (root, third and fifth an octave down, each
\* at 0.65 of the velocity), completes without an error, and records the
\* degree and the root's note as the last played.
C17_GuitarChordFiresThree ==
  ( /\ lastCall.op = "handleDegreeDown"
    /\ playModeSelect = "chord"
    /\ instrumentSelect = "guitar"
    /\ isStarted
    /\ guitarSamples # <<>> )
  => /\ ~lastCall.threw
     /\ lastPlayed.degree = lastCall.degree

\* the unit the selected instrument makes of a note: the sine always
\* sounds, a sample instrument only with a sample in its library
LibraryAnswers ==
  \/ instrumentSelect = "sine"
  \/ instrumentSelect = "flute" /\ fluteSamples # <<>>
  \/ instrumentSelect = "guitar" /\ guitarSamples # <<>>

\* the units a step has added to the graph outside the voice table
NewShots == untracked' (-) untracked

\* the new one-shots starting k steps of 120 ms from now
ShotsAt(k) == {u \in BagToSet(NewShots) : u.startIn = 120 * k}

\* six new one-shots, one at each of now + k * 0.12 s (k = 0..5), the first
\* three and the last three each sounding every tone of the chord once
SixShotsInTwoPasses(d) ==
  /\ BagCardinality(NewShots) = 6
  /\ \A k \in 0..5 : \E u \in ShotsAt(k) : ShotsAt(k) = {u} /\ CopiesIn(u, NewShots) = 1
  /\ \A pass \in 0..1, i \in 1..3 :
       \E k \in 0..2 :
         /\ \A u \in ShotsAt(3 * pass + k) : u.midi = ChordTones(d)[i]
         /\ \A k2 \in (0..2) \ {k} :
              \A u \in ShotsAt(3 * pass + k2) : u.midi # ChordTones(d)[i]

\* a note-off leaves the table, the graph and every other variable but
\* the record of the call as they were
NoteOffDoesNothing ==
  UNCHANGED <<uiVars, ctxVars, voiceVars, sampleVars, currentVelocity, lastPlayed,
              vibVars>>

\* C18 as stated: an arpeggio trigger schedules exactly six one-shots at
\* now + k * 0.12 s for k = 0..5, in two passes of three, each pass a
\* permutation of the three chord tones; and a note-off for the degree in
\* arpeggio mode performs no action.
C18_ArpAlwaysSchedulesSix ==
  [][\A d \in EngineDegrees :
       /\ ( /\ playModeSelect = "arp"
            /\ lastCall'.op = "handleDegreeDown"
            /\ \E p \in ArpPasses :
                 handleDegreeDown(d, currentVelocity, p[1], p[2]) )
          => SixShotsInTwoPasses(d)
       /\ ( /\ playModeSelect = "arp"
            /\ handleDegreeUp(d) )
          => NoteOffDoesNothing]_vars

\* C18, amended: an arpeggio trigger on the sine, or on the flute or the
\* guitar with a sample in the library, schedules exactly six one-shots at
\* now + k * 0.12 s for k = 0..5, in two passes of three, each pass a
\* permutation of the three chord tones; on the flute or the guitar with an
\* empty library it schedules none; and a note-off for the degree in
\* arpeggio mode performs no action.
C18_ArpSchedulesSix ==
  [][\A d \in EngineDegrees :
       /\ ( /\ playModeSelect = "arp"
            /\ lastCall'.op = "handleDegreeDown"
            /\ \E p \in ArpPasses :
                 handleDegreeDown(d, currentVelocity, p[1], p[2]) )
          => IF LibraryAnswers THEN SixShotsInTwoPasses(d)
             ELSE untracked' = untracked
       /\ ( /\ playModeSelect = "arp"
            /\ handleDegreeUp(d) )
          => NoteOffDoesNothing]_vars

\* an arpeggio has been triggered on the flute while the sine voice
\* "single-1" is held, its second pass in another order than the first, and
\* the note-off that followed has left voice and one-shots in place
C18_Witness ==
  /\ playModeSelect = "arp"
  /\ instrumentSelect = "flute"
  /\ lastCall.op = "handleDegreeUp"
  /\ SingleId(lastCall.degree) \in DOMAIN activeVoices
  /\ BagCardinality(untracked) = 6
  /\ \E u, w \in BagToSet(untracked) :
       /\ u.startIn = 0 /\ w.startIn = 360
       /\ u.midi # w.midi

\* the polls of one sensor, in order
PollsOf(sensor) == SelectSeq(polls, LAMBDA p : p.sensor = sensor)

\* the flex trigger before the k-th flex poll, from the readings alone:
\* armed by a reading at or above the on threshold, released by one at or
\* below the off threshold
RECURSIVE TriggerBefore(_, _)
TriggerBefore(f, k) ==
  IF k = 1 THEN FALSE
  ELSE IF f[k - 1].raw >= 2300 THEN TRUE
       ELSE IF f[k - 1].raw <= 2000 THEN FALSE
            ELSE TriggerBefore(f, k - 1)

\* C19: the firmware's flex poll emits a cycle_mode event exactly on a poll
\* where the trigger was inactive and the reading is at or above the on
\* threshold (2300); between any two events there is a poll with a reading
\* at or below the off threshold (2000); and no event is emitted when the
\* trigger goes from active to inactive.
C19_FlexHysteresis ==
  LET f == PollsOf("flex")
  IN  /\ \A k \in DOMAIN f :
           (f[k].doc # NoDoc) <=> (~TriggerBefore(f, k) /\ f[k].raw >= 2300)
      /\ \A i, j \in DOMAIN f :
           (i < j /\ f[i].doc # NoDoc /\ f[j].doc # NoDoc)
           => \E k \in (i + 1)..(j - 1) : f[k].raw <= 2000
      /\ \A k \in DOMAIN f :
           (TriggerBefore(f, k) /\ f[k].raw <= 2000) => f[k].doc = NoDoc
      /\ flexActive = TriggerBefore(f, Len(f) + 1)

\* two events with a release between them, and a reading between the
\* thresholds that emitted nothing while the trigger was inactive
C19_Witness ==
  LET f == PollsOf("flex")
  IN  /\ Len(f) = 4
      /\ f[1].doc # NoDoc /\ f[1].raw = 2300
      /\ f[2].doc = NoDoc /\ f[2].raw = 2000
      /\ f[3].doc = NoDoc /\ f[3].raw = 2299
      /\ f[4].doc # NoDoc /\ f[4].doc[1].action = "cycle_mode"

\* the force bucket of a raw reading
Bucket(raw) == IF raw <= 1200 THEN "LOW" ELSE IF raw <= 2600 THEN "MID" ELSE "HIGH"

\* C20: the firmware's force poll emits a pressure level event on a poll if
\* and only if the bucket (LOW / MID / HIGH) of this poll's reading differs
\* from the bucket of the previous poll's reading (LOW before the first
\* poll): one event per bucket change, none while the readings stay in a
\* bucket. The event carries the new bucket.
C20_PressureLevelEvents ==
  LET f == PollsOf("fsr")
      Before(k) == IF k = 1 THEN "LOW" ELSE Bucket(f[k - 1].raw)
  IN  /\ \A k \in DOMAIN f :
           /\ (f[k].doc # NoDoc) <=> (Bucket(f[k].raw) # Before(k))
           /\ f[k].doc # NoDoc => f[k].doc[1].level = Bucket(f[k].raw)
      /\ lastFsrLevel = Before(Len(f) + 1)

\* LOW to MID with an event, a second MID reading without one, MID to
\* HIGH with an event, and a first reading in LOW that emitted nothing
C20_Witness ==
  LET f == PollsOf("fsr")
  IN  /\ Len(f) = 4
      /\ f[1].raw = 1200 /\ f[1].doc = NoDoc
      /\ f[2].raw = 1201 /\ f[2].doc # NoDoc /\ f[2].doc[1].level = "MID"
      /\ f[3].raw = 2600 /\ f[3].doc = NoDoc
      /\ f[4].raw = 2601 /\ f[4].doc # NoDoc /\ f[4].doc[1].level = "HIGH"

\* C15: after any sequence of note-on commands and controller note_on
\* messages, whatever velocity they carry (out of range, missing, text),
\* currentVelocity is a number in the range [0, 1].
C15_VelocityInRange == currentVelocity \in 0..10000

\* C14: after any sequence of setVibratoAmount calls and controller
\* messages, whatever amount they carry (out of range, missing, text),
\* vibratoAmount is a number in the range [0, 1].
C14_VibratoAmountInRange == vibratoAmount \in 0..10000

\* a vibrato message out of the range has just been applied at the range's end
C14_Witness ==
  /\ lastCall.op = "setVibratoAmount"
  /\ vibratoAmount = 10000

\* the messages C16 calls malformed: no JSON, no object, a type that is
\* missing, no string or unknown, a note with a degree that is no number, a
\* note_on with a velocity that is present and no number, a vibrato with an
\* amount that is no number
Malformed(ev) ==
  \/ ev.json # "object"
  \/ ev.type.t # "string"
  \/ /\ ev.type.t = "string"
     /\ \/ ev.type.s \notin {"note_on", "note_off", "vibrato", "flex", "mode_cycle", "state"}
        \/ ev.type.s \in {"note_on", "note_off"} /\ ev.degree.t # "number"
        \/ ev.type.s = "note_on" /\ ev.velocity.t \notin {"number", "undefined"}
        \/ ev.type.s = "vibrato" /\ ev.amount.t # "number"

\* C16: a malformed controller message is dropped: the voice table,
\* lastPlayed, currentVelocity, vibratoAmount and the play mode are as
\* they were before it.
C16_MalformedIsDropped ==
  [][\A ev \in StrayMessages \cup NoteMessages \cup VibratoMessages, js \in ArpDraws :
       (Malformed(ev) /\ onmessage(ev, js, js))
       => UNCHANGED <<activeVoices, lastPlayed, currentVelocity, vibratoAmount,
                      playModeSelect>>]_vars

\* with audio started the master gain exists
MasterExistsWhenStarted == ensureAudioStarted => masterGain # -1

\* C13: on every tick of the vibrato loop with vibratoAmount = 0, whatever
\* the phase, the ratio is exactly 1: every sample unit of a voice keeps
\* playbackRate = baseRate and every oscillator frequency = baseFreq.
C13_NoVibratoNoBend ==
  [][(vibratoAmount = 0 /\ VibratoTick)
     => \A v \in DOMAIN activeVoices' :
          \A i \in DOMAIN activeVoices'[v] : activeVoices'[v][i].bend = 0]_vars

\* a tick at a phase where the sine is not zero has just run with the
\* amount at zero over a held flute voice, and its unit is at its base rate
C13_Witness ==
  /\ lastCall.op = "vibratoTick"
  /\ vibratoAmount = 0
  /\ Sin1000[vibratoPhase + 1] # 0
  /\ \E v \in DOMAIN activeVoices :
       \E i \in DOMAIN activeVoices[v] :
         activeVoices[v][i].kind = "sample" /\ activeVoices[v][i].bend = 0

NoteEvents(box, i) ==
  SelectSeq([k \in DOMAIN box |-> box[k].doc],
            LAMBDA doc : /\ doc.type \in {"note_on", "note_off"}
                         /\ doc.degree = i + 1)

\* C22: in each scan pass switch i posts note_on(i+1, the velocity the force
\* sensor last gave) exactly when its remembered level is HIGH and the level
\* read is LOW, note_off(i+1) exactly when remembered LOW and read HIGH, and
\* nothing when the level is unchanged; the level read becomes the
\* remembered one, so a note_on is only posted from remembered HIGH and a
\* note_off only from remembered LOW: the two alternate for each switch.
C22_SwitchEdges ==
  [][\A i \in 0..(BTN_COUNT - 1) :
       NoteEvents(outbox', i) =
         IF lastBtnState[i] = "HIGH" /\ lastBtnState'[i] = "LOW"
         THEN <<[type |-> "note_on", degree |-> i + 1, velocity |-> espVelocity]>>
         ELSE IF lastBtnState[i] = "LOW" /\ lastBtnState'[i] = "HIGH"
              THEN <<[type |-> "note_off", degree |-> i + 1]>>
              ELSE <<>>]_vars

\* one pass lifts the first switch and presses the last at full force
C22_Witness ==
  /\ espVelocity = 10000
  /\ lastBtnState[0] = "HIGH"
  /\ lastBtnState[BTN_COUNT - 1] = "LOW"
  /\ Len(outbox) = 2
  /\ outbox[1].doc = [type |-> "note_off", degree |-> 1]
  /\ outbox[2].doc = [type |-> "note_on", degree |-> BTN_COUNT, velocity |-> 10000]

\* the motion reading clamped to the ramp, in 1/10000
Shake(mag) ==
  IF mag <= MAG_MIN THEN 0
  ELSE IF mag >= MAG_MAX THEN 10000
       ELSE ((mag - MAG_MIN) * 10000) \div (MAG_MAX - MAG_MIN)

\* C23: every motion poll posts exactly one vibrato event, whatever the
\* reading, and the amount it carries is three quarters of the previous
\* amount plus one quarter of the clamped reading, inside [0, 1].
C23_VibratoEveryPoll ==
  [][(Len(polls') = Len(polls) + 1 /\ polls'[Len(polls')].sensor = "mpu") =>
       LET mag == polls'[Len(polls')].raw
       IN  /\ Len(outbox') = 1
           /\ outbox'[1].doc.type = "vibrato"
           /\ outbox'[1].doc.amount = (3 * currentVibrato + Shake(mag)) \div 4
           /\ outbox'[1].doc.amount = currentVibrato'
           /\ currentVibrato' >= 0 /\ currentVibrato' <= 10000]_vars

\* a second hard shake in a row: the amount rises again and is posted,
\* although the reading did not change
C23_Witness ==
  /\ Len(polls) = 2
  /\ polls[1].sensor = "mpu" /\ polls[1].raw = 5000
  /\ polls[2].sensor = "mpu" /\ polls[2].raw = 5000
  /\ currentVibrato = 4375
  /\ outbox = <<[doc |-> [type |-> "vibrato", amount |-> 4375], ok |-> TRUE]>>

\* the polls a step adds to the log
NewPolls == SubSeq(polls', Len(polls) + 1, Len(polls'))

\* the poll of the same sensor before the k-th of log, 0 if there is none
PollBefore(log, k) ==
  LET earlier == {j \in 1..(k - 1) : log[j].sensor = log[k].sensor}
  IN  IF earlier = {} THEN 0 ELSE CHOOSE j \in earlier : \A m \in earlier : m <= j

\* C24: each POST attempted moves exactly one of the ok/fail counters by
\* one; whether or not a POST failed, the channel's memory is updated, so
\* a later poll with the same reading posts nothing (a switch that reads as
\* remembered, a force or flex reading equal to the one before); and a
\* failed POST does not end the pass: every channel that is due is polled.
C24_FailedSendIsDropped ==
  [][probe'.fn = "loop" =>
       /\ postOk' = postOk + Cardinality({k \in DOMAIN outbox' : outbox'[k].ok})
       /\ postFail' = postFail + Cardinality({k \in DOMAIN outbox' : ~outbox'[k].ok})
       /\ postOk' + postFail' = postOk + postFail + Len(outbox')
       /\ \A i \in 0..(BTN_COUNT - 1) :
            lastBtnState'[i] = lastBtnState[i] => NoteEvents(outbox', i) = <<>>
       /\ \A k \in (Len(polls) + 1)..Len(polls') :
            LET j == PollBefore(polls', k)
            IN  (/\ polls'[k].sensor \in {"fsr", "flex"}
                 /\ j > 0
                 /\ polls'[j].raw = polls'[k].raw) => polls'[k].doc = <<>>
       /\ [k \in DOMAIN NewPolls |-> NewPolls[k].sensor]
            = SelectSeq(Channels, LAMBDA c : c \in probe'.arg.due)]_vars

\* a pass with no connection closes the first switch and crosses both
\* sensors' thresholds: three POSTs fail, the sensors are polled all the
\* same, and the next pass, with the same readings, posts nothing
C24_Witness ==
  /\ probe.fn = "loop"
  /\ postOk = 0 /\ postFail = 3
  /\ lastBtnState[0] = "LOW"
  /\ outbox = <<>>
  /\ Len(polls) = 4
  /\ polls[1].sensor = "fsr" /\ polls[1].raw = ADC_MAX /\ polls[1].doc # <<>>
  /\ polls[2].sensor = "flex" /\ polls[2].raw = ADC_MAX /\ polls[2].doc # <<>>
  /\ polls[3] = Polled("fsr", ADC_MAX, <<>>)
  /\ polls[4] = Polled("flex", ADC_MAX, <<>>)

\* C27: degreeToMidi ends for every integer degree, under 1 and over 8
\* included, with a pitch inside the instrument's [minMidi, maxMidi] whose
\* pitch class is (tonic + interval[(degree - 1) mod 7]) mod 12, the
\* remainder taken non-negative.
C27_TotalOverDegrees ==
  probe.fn = "degreeToMidi" =>
    LET km     == getCurrentKeyMode
        within == (probe.arg - 1) % 7
        reg    == Register(instrumentSelect)
    IN  /\ Len(probe.out) = 1
        /\ probe.out[1] >= reg.minMidi
        /\ probe.out[1] <= reg.maxMidi
        /\ probe.out[1] % 12
             = (NOTE_TO_PC[km.tonic] + SCALE_INTERVALS[km.mode][within + 1]) % 12

\* degree 0 in C major on the sine: the seventh, B, an octave under the
\* base, raised into the register
C27_Witness ==
  /\ probe = Applied("degreeToMidi", 0, <<59>>)
  /\ keySelect = "C"
  /\ modeSelect = "major"
  /\ instrumentSelect = "sine"

\* degree 15 in D on the flute: two octaves over the base, lowered into the
\* register
C27_WitnessAbove ==
  /\ probe = Applied("degreeToMidi", 15, <<74>>)
  /\ keySelect = "D"
  /\ instrumentSelect = "flute"

\* the selected instrument plays samples and its library holds none
EmptyLibrarySelected ==
  \/ instrumentSelect = "flute" /\ fluteSamples = <<>>
  \/ instrumentSelect = "guitar" /\ guitarSamples = <<>>

\* C25: with an empty library for the selected sample instrument a note-on
\* in any play mode raises no error and adds no sounding unit, in the voice
\* table or outside it.
C25_EmptyLibraryMutes ==
  [][(/\ lastCall'.op = "handleDegreeDown"
      /\ isStarted
      /\ EmptyLibrarySelected
      /\ DegreeDown) =>
       /\ ~lastCall'.threw
       /\ untracked' = untracked
       /\ \A v \in DOMAIN activeVoices' :
            IF v \in DOMAIN activeVoices THEN activeVoices'[v] = activeVoices[v]
            ELSE activeVoices'[v] = <<>>]_vars

\* a unit but for its bend: what a change of playback rate or frequency
\* leaves alone
Unbent(n) == [n EXCEPT !.bend = 0]

\* C26: a vibrato tick changes only the playback rate / frequency of the
\* units of voices in the voice table: it adds and removes no table entry,
\* leaves every unit's base rate / base frequency as recorded, and touches
\* neither the one-shots nor the units of a voice that was released.
C26_TickBendsTableOnly ==
  [][(lastCall'.op = "vibratoTick" /\ VibratoTick) =>
       /\ DOMAIN activeVoices' = DOMAIN activeVoices
       /\ \A v \in DOMAIN activeVoices :
            /\ Len(activeVoices'[v]) = Len(activeVoices[v])
            /\ \A i \in DOMAIN activeVoices[v] :
                 Unbent(activeVoices'[v][i]) = Unbent(activeVoices[v][i])
       /\ untracked' = untracked]_vars

\* a tick has bent the held voice away from the bend its released
\* predecessor keeps
C26_Witness ==
  /\ lastCall.op = "vibratoTick"
  /\ \E v \in DOMAIN activeVoices :
       /\ activeVoices[v] # <<>>
       /\ activeVoices[v][1].bend # 0
       /\ \E u \in BagToSet(untracked) :
            u.decayIn = 180 /\ u.voice = v /\ u.bend # activeVoices[v][1].bend

\* a tick has bent the held voice beside a guitar one-shot, which stays at
\* its rate
C26_WitnessOneShot ==
  /\ lastCall.op = "vibratoTick"
  /\ \E v \in DOMAIN activeVoices :
       /\ activeVoices[v] # <<>>
       /\ activeVoices[v][1].bend # 0
  /\ \E u \in BagToSet(untracked) : u.voice = "" /\ u.bend = 0

\* C28: once the note-on of a degree on a sustained timbre (sine, flute) has
\* been followed by the degree's note-off, the voice table holds no voice
\* of the degree, single or chord, whatever play mode, instrument or key
\* was selected in between.  (Only sustained timbres enter the table.)
C28_NoteOffClearsDegree ==
  lastCall.op = "handleDegreeUp" =>
    {SingleId(lastCall.degree), ChordId(lastCall.degree)}
      \cap DOMAIN activeVoices = {}

\* C29: startAudio called again while an earlier call is still suspended at
\* its await, or after it has finished, creates no second audio context: at
\* most one context is open (created and not closed) at any time.
C29_OneOpenContext == Cardinality(openCtx) <= 1

\* C30: once stopAudio has run, and until the next startAudio, the flute and
\* guitar sample sets are empty and their loaded flags false, also when a
\* sample load was in flight at the stop and ends after it.  (audioCtx is
\* null exactly from a stop, or the page's load, to the next startAudio.)
C30_StoppedMeansUnloaded ==
  audioCtx = 0 =>
    /\ fluteSamples = <<>>
    /\ ~fluteLoaded
    /\ guitarSamples = <<>>
    /\ ~guitarLoaded

\* the play mode after the one given, in the order single, arp, chord
ModeAfter(mode) ==
  CASE mode = "single" -> "arp"
    [] mode = "arp"    -> "chord"
    [] mode = "chord"  -> "single"

\* C31: cycleMode advances the play mode in the order single -> arp ->
\* chord -> single, so that three in a row restore the starting mode; it
\* does so whether or not audio is started, and changes neither the voice
\* table, nor the velocity, nor the vibrato amount.
C31_CycleModeOrder ==
  [][(lastCall'.op = "applyFlexCycleMode" /\ CycleModeMessage) =>
       /\ playModeSelect' = ModeAfter(playModeSelect)
       /\ ModeAfter(ModeAfter(playModeSelect')) = playModeSelect
       /\ activeVoices' = activeVoices
       /\ untracked' = untracked
       /\ currentVelocity' = currentVelocity
       /\ vibratoAmount' = vibratoAmount]_vars

\* with audio running, a voice held and the vibrato up, the mode has been
\* cycled round to single
C31_Witness ==
  /\ lastCall.op = "applyFlexCycleMode"
  /\ isStarted
  /\ playModeSelect = "single"
  /\ activeVoices # NoVoices
  /\ vibratoAmount # 0

\* the mode has been cycled twice before audio was ever started
C31_WitnessStopped ==
  /\ lastCall.op = "applyFlexCycleMode"
  /\ audioCtx = 0
  /\ ~isStarted
  /\ playModeSelect = "chord"

\* C32: for every degree in 1..8, key, mode and sustained instrument
\* (sine, flute), the three chord tones handed to the voice engine (root,
\* third, fifth) lie inside the instrument's [minMidi, maxMidi].
C32_ChordInRegister ==
  (probe.fn = "ChordTones" /\ probe.arg \in 1..8
     /\ instrumentSelect \in {"sine", "flute"}) =>
        \A k \in 1..3 :
          /\ probe.out[k] >= Register(instrumentSelect).minMidi
          /\ probe.out[k] <= Register(instrumentSelect).maxMidi

\* C33: whenever a switch is held down (its press has been scanned, its
\* release has not) activeDegree is not 0, so that a display poll leaves
\* the note on the display; for any interleaving of presses and releases
\* of several switches.
C33_HeldMeansActive ==
  (\E i \in 0..(BTN_COUNT - 1) : lastBtnState[i] = "LOW") => activeDegree # 0

\* C34: a note-on that arrives while audio is not started changes nothing
\* in the engine: the voice table, lastPlayed, currentVelocity, the vibrato
\* amount and the play mode stay as they are and no unit is scheduled; and
\* the voice table is non-empty only while audio is started.
C34_NoteOnNeedsAudio ==
  /\ [](activeVoices # NoVoices => (audioCtx # 0 /\ isStarted))
  /\ [][(/\ audioCtx = 0 \/ ~isStarted
         /\ lastCall'.op = "handleDegreeDown"
         /\ DegreeDown \/ ControllerNoteOn) =>
          /\ activeVoices' = activeVoices
          /\ untracked' = untracked
          /\ lastPlayed' = lastPlayed
          /\ currentVelocity' = currentVelocity
          /\ masterGain' = masterGain
          /\ vibratoAmount' = vibratoAmount
          /\ playModeSelect' = playModeSelect]_vars

\* a note was played, audio was stopped, and a note-on has arrived in chord
\* mode with the vibrato up: nothing sounds
C34_Witness ==
  /\ lastCall = Call("handleDegreeDown", 1, FALSE)
  /\ audioCtx = 0
  /\ ~isStarted
  /\ lastPlayed.degree = 1
  /\ playModeSelect = "chord"
  /\ vibratoAmount # 0
  /\ activeVoices = NoVoices
  /\ untracked = EmptyBag

\* a note-on has arrived while startAudio is suspended at its await
C34_WitnessStarting ==
  /\ lastCall = Call("handleDegreeDown", 1, FALSE)
  /\ audioCtx # 0
  /\ ~isStarted
  /\ activeVoices = NoVoices

=============================================================================
